---------------------------- MODULE Spec2Model ----------------------------
(***************************************************************************)
(* Model of odoo_agent.py, the HTTP bridge to the Odoo ledger: the bearer  *)
(* authentication of its endpoints, the reconciliation matcher             *)
(* (reconciliation_suggest), the applier (reconciliation_apply) and the    *)
(* threshold job (task_auto_reconcile), over a model of the ledger tables  *)
(* they read and write through XML-RPC.                                    *)
(*                                                                         *)
(* Conventions.  A Python value that may be None/False is a sequence of    *)
(* length 0 (absent) or 1 (present).  A Python str is a sequence of        *)
(* one-character strings.  A monetary amount is an integer number of cents *)
(* c, standing for the IEEE-754 double nearest to c/100, which is what the *)
(* ledger delivers over XML-RPC for a two-decimal currency.  A score is an *)
(* integer number of hundredths (0.9 is 90, 0.98 is 98).                   *)
(***************************************************************************)
EXTENDS Integers, Sequences, FiniteSets, TLC

VARIABLES
    lines,      \* ledger table account.move.line, id = index
    moves,      \* ledger table account.move, id = index
    pc,         \* per worker: position in the handler it is running
    req,        \* per worker: the request being served
    fetched,    \* per worker: bank_items / inv_items read by reconciliation_suggest
    sugs,       \* per worker: the suggestions list of reconciliation_suggest
    matches,    \* per worker: the matches list of reconciliation_apply
    idx,        \* per worker: index of the pair of matches being processed
    inv_lines,  \* per worker: payable line ids of the pair being processed
    applied,    \* per worker: the applied list of reconciliation_apply
    skipped,    \* per worker: the skipped list of reconciliation_apply
    calls,      \* per worker: ledger calls made while serving the request
    resp,       \* per worker: the HTTP response, once there is one
    partners,   \* ledger table res.partner, id = index
    attachments \* ledger table ir.attachment, id = index

vars == <<lines, moves, pc, req, fetched, sugs, matches, idx, inv_lines,
          applied, skipped, calls, resp, partners, attachments>>

---------------------------------------------------------------------------
(* Program constants *)

AmountTolCents == 50
DateTolDays == 5
PrefixLen == 5
BaseScore == 90
PartnerScore == 98
DefaultMinScore == 95
DefaultLimit == 200
BankLimit == 200
InvLimit == 500

---------------------------------------------------------------------------
(* Python values *)

None == <<>>
Some(v) == <<v>>
Truthy(o) == Len(o) = 1 /\ o[1] # <<>>     \* bool(x) of an optional str
Present(o) == Len(o) = 1
Min(a, b) == IF a <= b THEN a ELSE b
Abs(x) == IF x < 0 THEN -x ELSE x

UpperChars == <<"A", "B", "C", "E", "K", "L", "M", "N", "S">>
LowerChars == <<"a", "b", "c", "e", "k", "l", "m", "n", "s">>

\* str.lower() on one character
LowerChar(c) ==
    IF \E i \in 1..Len(UpperChars) : UpperChars[i] = c
    THEN LowerChars[CHOOSE i \in 1..Len(UpperChars) : UpperChars[i] = c]
    ELSE c

Lower(s) == [i \in 1..Len(s) |-> LowerChar(s[i])]

\* s[:n]
Prefix(s, n) == SubSeq(s, 1, Min(n, Len(s)))

\* rows[:limit], the ledger's "limit" keyword
Take(rows, limit) == SubSeq(rows, 1, Min(limit, Len(rows)))

\* the ledger's ilike: case-insensitive substring
ILike(s, sub) ==
    \E i \in 0..(Len(s) - Len(sub)) :
        Lower(SubSeq(s, i + 1, i + Len(sub))) = Lower(sub)

---------------------------------------------------------------------------
(* datetime.date: strptime(...,"%Y-%m-%d").date() yields (y, m, d); the    *)
(* difference of two dates is the difference of their proleptic Gregorian  *)
(* ordinals.                                                               *)

IsLeap(y) == y % 4 = 0 /\ (y % 100 # 0 \/ y % 400 = 0)

DaysInMonth(y, m) ==
    IF m = 2 THEN (IF IsLeap(y) THEN 29 ELSE 28)
    ELSE IF m \in {4, 6, 9, 11} THEN 30 ELSE 31

DaysBeforeYear(y) ==
    (y - 1) * 365 + (y - 1) \div 4 - (y - 1) \div 100 + (y - 1) \div 400

RECURSIVE DaysBeforeMonth(_, _)
DaysBeforeMonth(y, m) ==
    IF m = 1 THEN 0 ELSE DaysBeforeMonth(y, m - 1) + DaysInMonth(y, m - 1)

ToOrdinal(dt) == DaysBeforeYear(dt.y) + DaysBeforeMonth(dt.y, dt.m) + dt.d

\* (a - b).days
DaysBetween(a, b) == ToOrdinal(a) - ToOrdinal(b)

---------------------------------------------------------------------------
(* IEEE-754 doubles of two-decimal amounts.  The double nearest to c/100   *)
(* is c/100 + n/(100 * 2^q) with q = 52 - floor(log2(c/100)) and           *)
(* n = 100*m - c*2^q for the 53-bit significand m; |n| <= 50 and n is      *)
(* found from c * 2^q modulo 100.                                          *)

RECURSIVE BinExpUp(_, _)
BinExpUp(c, e) == IF c >= 100 * (2 ^ (e + 1)) THEN BinExpUp(c, e + 1) ELSE e

RECURSIVE BinExpDown(_, _)
BinExpDown(c, k) == IF c * (2 ^ k) < 100 THEN BinExpDown(c, k + 1) ELSE -k

\* floor(log2(c/100)) for c > 0
BinExp(c) == IF c >= 100 THEN BinExpUp(c, 0) ELSE BinExpDown(c, 1)

RECURSIVE Pow2Mod100(_)
Pow2Mod100(q) == IF q = 0 THEN 1 ELSE (2 * Pow2Mod100(q - 1)) % 100

\* q and n of the double of c cents (c >= 0)
DoubleQ(c) == IF c = 0 THEN 54 ELSE 52 - BinExp(c)

DoubleErr(c) ==
    IF c = 0 THEN 0
    ELSE LET rem == ((c % 100) * Pow2Mod100(DoubleQ(c))) % 100
         IN  IF rem < 50 THEN -rem ELSE 100 - rem

\* abs(b_amount - resid) <= 0.5 in double arithmetic, for b_amount and
\* resid the doubles of cb and cr cents (cb, cr >= 0).  A difference of
\* exactly 50 cents is 0.5 + E for the doubles, E the difference of the two
\* representation errors; the subtraction rounds to nearest-even, so the
\* result is <= 0.5 exactly when E <= 2^-54.
FloatDiffWithinTol(cb, cr) ==
    LET hi == IF cb >= cr THEN cb ELSE cr
        lo == IF cb >= cr THEN cr ELSE cb
        qh == DoubleQ(hi)
        ql == IF lo = 0 THEN qh ELSE DoubleQ(lo)
        Q  == IF qh >= ql THEN qh ELSE ql
        num == DoubleErr(hi) * (2 ^ (Q - qh)) - DoubleErr(lo) * (2 ^ (Q - ql))
    IN  IF hi - lo < AmountTolCents THEN TRUE
        ELSE IF hi - lo > AmountTolCents THEN FALSE
        ELSE IF Q >= 54 THEN num <= 100 * (2 ^ (Q - 54))
        ELSE num * (2 ^ (54 - Q)) <= 100

---------------------------------------------------------------------------
(* The ledger (Odoo), as far as the bridge reads and writes it.            *)
(* account.journal is a fixed table; account.move.line and account.move    *)
(* are the variables lines and moves.  Fields the bridge only passes       *)
(* through to its response (name, ref, amount_total, currency) and the     *)
(* company filter of invoices_unreconciled are left out.                   *)

Journals == << [type |-> "bank", name |-> <<"B", "a", "n", "k">>],
               [type |-> "purchase", name |-> <<"B", "i", "l", "l", "s">>] >>

Workers == {"w1", "w2"}

\* search on account.journal with j_domain
SearchJournals(journal_name) ==
    {j \in 1..Len(Journals) :
        /\ Journals[j].type = "bank"
        /\ Truthy(journal_name) => ILike(Journals[j].name, journal_name[1])}

\* the ledger's date comparison of a domain leaf; an unset date matches none
DateGE(d, bound) == Present(d) /\ ToOrdinal(d[1]) >= ToOrdinal(bound[1])
DateLE(d, bound) == Present(d) /\ ToOrdinal(d[1]) <= ToOrdinal(bound[1])

\* "order": "<date> desc, id desc"; an unset date sorts first under desc,
\* as PostgreSQL orders NULL.
Before(d1, id1, d2, id2) ==
    IF Present(d1) # Present(d2) THEN ~Present(d1)
    ELSE IF Present(d1) /\ ToOrdinal(d1[1]) # ToOrdinal(d2[1])
         THEN ToOrdinal(d1[1]) > ToOrdinal(d2[1])
    ELSE id1 > id2

RECURSIVE OrderedIds(_, _, _)
OrderedIds(ids, table, field) ==
    IF ids = {} THEN <<>>
    ELSE LET first == CHOOSE i \in ids : \A k \in ids \ {i} :
                          Before(table[i][field], i, table[k][field], k)
         IN  <<first>> \o OrderedIds(ids \ {first}, table, field)

\* search_read on account.move.line with the domain of bank_unreconciled
BankRowIds(tbl, journal_ids, date_from, date_to) ==
    {i \in 1..Len(tbl) :
        /\ tbl[i].journal_id \in journal_ids
        /\ tbl[i].reconciled = FALSE
        /\ Present(date_from) => DateGE(tbl[i].date, date_from)
        /\ Present(date_to) => DateLE(tbl[i].date, date_to)}

BankItem(tbl, i) ==
    [id |-> i, date |-> tbl[i].date, amount |-> Abs(tbl[i].balance),
     partner |-> tbl[i].partner]

\* bank_unreconciled: the items of its response
BankUnreconciledItems(tbl, journal_name, date_from, date_to, limit) ==
    LET bank_journal_ids == SearchJournals(journal_name)
        rows == Take(OrderedIds(BankRowIds(tbl, bank_journal_ids, date_from,
                                           date_to), tbl, "date"), limit)
    IN  IF bank_journal_ids = {} THEN <<>>
        ELSE [k \in 1..Len(rows) |-> BankItem(tbl, rows[k])]

\* search_read on account.move with the domain of invoices_unreconciled
InvoiceRowIds(tbl, date_from, date_to) ==
    {i \in 1..Len(tbl) :
        /\ tbl[i].move_type \in {"in_invoice", "in_refund"}
        /\ tbl[i].state \in {"posted", "draft"}
        /\ (tbl[i].amount_residual > 1 \/ tbl[i].payment_state # "paid")
        /\ Present(date_from) => DateGE(tbl[i].invoice_date, date_from)
        /\ Present(date_to) => DateLE(tbl[i].invoice_date, date_to)}

InvoiceItem(tbl, i) ==
    [id |-> i, invoice_date |-> tbl[i].invoice_date,
     partner |-> tbl[i].partner, amount_residual |-> tbl[i].amount_residual,
     payment_state |-> tbl[i].payment_state, state |-> tbl[i].state]

\* invoices_unreconciled: the items of its response
InvoicesUnreconciledItems(tbl, date_from, date_to, limit) ==
    LET rows == Take(OrderedIds(InvoiceRowIds(tbl, date_from, date_to), tbl,
                                "invoice_date"), limit)
    IN  [k \in 1..Len(rows) |-> InvoiceItem(tbl, rows[k])]

\* PayableLineIds without the reconciled = False term of its domain
PayableLineIdsAll(tbl, move_id) ==
    LET ids == {i \in 1..Len(tbl) :
                   /\ tbl[i].move_id = move_id
                   /\ tbl[i].account_internal_type = "payable"}
        RECURSIVE Asc(_)
        Asc(S) == IF S = {} THEN <<>>
                  ELSE LET lo == CHOOSE i \in S : \A k \in S : i <= k
                       IN  <<lo>> \o Asc(S \ {lo})
    IN  Asc(ids)

\* get_invoice_payable_line_ids: search on account.move.line, in id order
PayableLineIds(tbl, move_id) ==
    LET ids == {i \in 1..Len(tbl) :
                   /\ tbl[i].move_id = move_id
                   /\ tbl[i].reconciled = FALSE
                   /\ tbl[i].account_internal_type = "payable"}
        RECURSIVE Asc(_)
        Asc(S) == IF S = {} THEN <<>>
                  ELSE LET lo == CHOOSE i \in S : \A k \in S : i <= k
                       IN  <<lo>> \o Asc(S \ {lo})
    IN  Asc(ids)

\* account.move.line reconcile, when the ledger accepts it: every line of
\* line_ids is marked reconciled
ReconcileLines(tbl, line_ids) ==
    [i \in 1..Len(tbl) |->
        IF \E k \in 1..Len(line_ids) : line_ids[k] = i
        THEN [tbl[i] EXCEPT !.reconciled = TRUE] ELSE tbl[i]]

---------------------------------------------------------------------------
(* The matcher of reconciliation_suggest *)

\* AmountOk with the abs() forgotten
AmountOkSigned(bl, mv) == bl.amount - mv.amount_residual <= AmountTolCents

\* abs(b_amount - resid) <= 0.5
AmountOk(bl, mv) == FloatDiffWithinTol(bl.amount, mv.amount_residual)

\* DaysOk with the abs() forgotten
DaysOkSigned(bl, mv) ==
    IF Present(bl.date) /\ Present(mv.invoice_date)
    THEN DaysBetween(bl.date[1], mv.invoice_date[1]) <= DateTolDays
    ELSE TRUE

\* days_ok
DaysOk(bl, mv) ==
    IF Present(bl.date) /\ Present(mv.invoice_date)
    THEN Abs(DaysBetween(bl.date[1], mv.invoice_date[1])) <= DateTolDays
    ELSE TRUE

\* the partner bonus
PartnerAlike(bl, mv) ==
    /\ Truthy(bl.partner)
    /\ Truthy(mv.partner)
    /\ Prefix(Lower(bl.partner[1]), PrefixLen)
           = Prefix(Lower(mv.partner[1]), PrefixLen)

PairScore(bl, mv) == IF PartnerAlike(bl, mv) THEN PartnerScore ELSE BaseScore

SuggestionOf(bl, mv) ==
    [bank_line_id |-> bl.id, move_id |-> mv.id, amount |-> mv.amount_residual,
     bank_date |-> bl.date, invoice_date |-> mv.invoice_date,
     partner |-> mv.partner, score |-> PairScore(bl, mv)]

\* the body of the inner loop: what one pair appends to suggestions
PairSuggestions(bl, mv) ==
    IF AmountOk(bl, mv) /\ DaysOk(bl, mv) THEN <<SuggestionOf(bl, mv)>>
    ELSE <<>>

RECURSIVE InnerLoop(_, _, _)
InnerLoop(bl, inv_items, j) ==
    IF j > Len(inv_items) THEN <<>>
    ELSE PairSuggestions(bl, inv_items[j]) \o InnerLoop(bl, inv_items, j + 1)

RECURSIVE OuterLoop(_, _, _)
OuterLoop(bank_items, inv_items, i) ==
    IF i > Len(bank_items) THEN <<>>
    ELSE InnerLoop(bank_items[i], inv_items, 1)
             \o OuterLoop(bank_items, inv_items, i + 1)

\* InsertByScore of a sort that is not stable: x goes before its equals
RECURSIVE InsertByScoreUnstable(_, _)
InsertByScoreUnstable(sorted, x) ==
    IF sorted = <<>> THEN <<x>>
    ELSE IF -Head(sorted).score < -x.score
         THEN <<Head(sorted)>> \o InsertByScoreUnstable(Tail(sorted), x)
         ELSE <<x>> \o sorted

\* list.sort(key=lambda x: -x["score"]): a stable sort, x goes after every
\* element whose key is not greater than its own
RECURSIVE InsertByScore(_, _)
InsertByScore(sorted, x) ==
    IF sorted = <<>> THEN <<x>>
    ELSE IF -Head(sorted).score <= -x.score
         THEN <<Head(sorted)>> \o InsertByScore(Tail(sorted), x)
         ELSE <<x>> \o sorted

RECURSIVE SortByScore(_, _)
SortByScore(s, n) ==
    IF n = 0 THEN <<>> ELSE InsertByScore(SortByScore(s, n - 1), s[n])

\* the items of the response of reconciliation_suggest
Suggestions(bank_items, inv_items) ==
    LET found == OuterLoop(bank_items, inv_items, 1)
    IN  SortByScore(found, Len(found))

---------------------------------------------------------------------------
(* Bearer authentication *)

API_TOKEN == <<"s", "k">>

StartsWith(s, p) == Len(s) >= Len(p) /\ SubSeq(s, 1, Len(p)) = p

\* s.split(" ", 1)[1], for s holding a space
AfterFirstSpace(s) ==
    LET i == CHOOSE k \in 1..Len(s) :
                 s[k] = " " /\ \A m \in 1..(k - 1) : s[m] # " "
    IN  SubSeq(s, i + 1, Len(s))

RECURSIVE LStrip(_)
LStrip(s) == IF s # <<>> /\ Head(s) = " " THEN LStrip(Tail(s)) ELSE s

RECURSIVE RStrip(_)
RStrip(s) ==
    IF s # <<>> /\ s[Len(s)] = " " THEN RStrip(SubSeq(s, 1, Len(s) - 1))
    ELSE s

Strip(s) == RStrip(LStrip(s))

\* the token auth compares with API_TOKEN
BearerToken(authorization) == Strip(AfterFirstSpace(authorization[1]))

\* Auth comparing the token without regard to case
AuthCaseBlind(authorization) ==
    IF \/ ~Truthy(authorization)
       \/ ~StartsWith(Lower(authorization[1]),
                      <<"b", "e", "a", "r", "e", "r", " ">>)
    THEN "Missing Bearer token"
    ELSE IF \/ API_TOKEN = <<>>
            \/ Lower(BearerToken(authorization)) # Lower(API_TOKEN)
         THEN "Invalid credentials"
         ELSE ""

\* auth: "" when it returns True, else the detail of its HTTPException(401)
Auth(authorization) ==
    IF \/ ~Truthy(authorization)
       \/ ~StartsWith(Lower(authorization[1]),
                      <<"b", "e", "a", "r", "e", "r", " ">>)
    THEN "Missing Bearer token"
    ELSE IF API_TOKEN = <<>> \/ BearerToken(authorization) # API_TOKEN
         THEN "Invalid credentials"
         ELSE ""

Endpoints ==
    {"root", "ping", "providers_search", "providers_ensure",
     "invoices_unreconciled", "invoices_attach", "invoices_create_json",
     "invoices_create_with_file", "invoices_create_from_image",
     "invoices_validate", "bank_unreconciled", "reconciliation_suggest",
     "reconciliation_apply", "task_auto_reconcile"}

\* the endpoints declared with Depends(auth)
RequiresAuth(endpoint) == endpoint # "root"

---------------------------------------------------------------------------
(* Requests, responses, ledger calls *)

NoReq ==
    [endpoint |-> "", header |-> None, journal_name |-> None,
     date_from |-> None, date_to |-> None, matches |-> None,
     min_score |-> DefaultMinScore]

NoResp == [status |-> 0, detail |-> "", body |-> <<>>]

NoFetch == [bank_items |-> <<>>, inv_items |-> <<>>]

Call(model, method, args) == [model |-> model, method |-> method, args |-> args]

HttpError(status, detail) == [status |-> status, detail |-> detail, body |-> <<>>]

Ok(body) == [status |-> 200, detail |-> "", body |-> body]

\* an exception that no handler catches
ServerError == HttpError(500, "Internal Server Error")

\* The response is sent and the worker is free for the next request; the
\* locals of the handler are gone.
Release(w) ==
    /\ pc[w] = "done"
    /\ pc' = [pc EXCEPT ![w] = "idle"]
    /\ req' = [req EXCEPT ![w] = NoReq]
    /\ fetched' = [fetched EXCEPT ![w] = NoFetch]
    /\ sugs' = [sugs EXCEPT ![w] = <<>>]
    /\ matches' = [matches EXCEPT ![w] = <<>>]
    /\ idx' = [idx EXCEPT ![w] = 0]
    /\ inv_lines' = [inv_lines EXCEPT ![w] = <<>>]
    /\ applied' = [applied EXCEPT ![w] = <<>>]
    /\ skipped' = [skipped EXCEPT ![w] = <<>>]
    /\ calls' = [calls EXCEPT ![w] = <<>>]
    /\ resp' = [resp EXCEPT ![w] = NoResp]
    /\ UNCHANGED <<lines, moves>>
    /\ UNCHANGED <<partners, attachments>>

\* A request arrives at worker w: the framework resolves Depends(auth) and,
\* if that raises, answers 401 without entering the handler.
Arrive(w, r) ==
    /\ pc[w] = "idle"
    /\ req' = [req EXCEPT ![w] = r]
    /\ IF RequiresAuth(r.endpoint) /\ Auth(r.header) # ""
       THEN /\ pc' = [pc EXCEPT ![w] = "done"]
            /\ resp' = [resp EXCEPT ![w] = HttpError(401, Auth(r.header))]
       ELSE /\ pc' = [pc EXCEPT ![w] = r.endpoint]
            /\ UNCHANGED resp
    /\ UNCHANGED <<lines, moves, fetched, sugs, matches, idx, inv_lines,
                   applied, skipped, calls>>
    /\ UNCHANGED <<partners, attachments>>

\* the ledger calls of reconciliation_suggest, in order; bank_unreconciled
\* returns early, without its search_read, when no bank journal is found
SuggestCalls(journal_name) ==
    <<Call("account.journal", "search", <<>>)>>
    \o (IF SearchJournals(journal_name) = {} THEN <<>>
        ELSE <<Call("account.move.line", "search_read", <<>>)>>)
    \o <<Call("account.move", "search_read", <<>>)>>

\* reconciliation_suggest, called with filters; failed is 0 when every
\* ledger call answers, else the number of the call that raises
SuggestFrame(w, journal_name, date_from, date_to, failed) ==
    LET bank_items == BankUnreconciledItems(lines, journal_name, date_from,
                                            date_to, BankLimit)
        inv_items == InvoicesUnreconciledItems(moves, date_from, date_to,
                                               InvLimit)
        made == SuggestCalls(journal_name)
    IN  /\ failed \in 0..Len(made)
        /\ calls' = [calls EXCEPT ![w] =
               @ \o (IF failed = 0 THEN made ELSE SubSeq(made, 1, failed))]
        /\ IF failed = 0
           THEN /\ fetched' = [fetched EXCEPT ![w] =
                       [bank_items |-> bank_items, inv_items |-> inv_items]]
                /\ sugs' = [sugs EXCEPT ![w] =
                       Suggestions(bank_items, inv_items)]
           ELSE UNCHANGED <<fetched, sugs>>

\* ReconciliationSuggest reserving the bank lines it proposes
ReconciliationSuggestReserving(w) ==
    /\ pc[w] = "reconciliation_suggest"
    /\ \E failed \in 0..3 :
          /\ SuggestFrame(w, req[w].journal_name, req[w].date_from,
                          req[w].date_to, failed)
          /\ resp' = [resp EXCEPT ![w] =
                 IF failed = 0
                 THEN Ok([count |-> Len(sugs'[w]), items |-> sugs'[w]])
                 ELSE ServerError]
          /\ lines' = ReconcileLines(lines,
                 [k \in 1..Len(sugs'[w]) |-> sugs'[w][k].bank_line_id])
    /\ pc' = [pc EXCEPT ![w] = "done"]
    /\ UNCHANGED <<moves, req, matches, idx, inv_lines, applied, skipped>>
    /\ UNCHANGED <<partners, attachments>>

\* GET /odoo/reconciliation/suggest
ReconciliationSuggest(w) ==
    /\ pc[w] = "reconciliation_suggest"
    /\ \E failed \in 0..3 :
          /\ SuggestFrame(w, req[w].journal_name, req[w].date_from,
                          req[w].date_to, failed)
          /\ resp' = [resp EXCEPT ![w] =
                 IF failed = 0
                 THEN Ok([count |-> Len(sugs'[w]), items |-> sugs'[w]])
                 ELSE ServerError]
    /\ pc' = [pc EXCEPT ![w] = "done"]
    /\ UNCHANGED <<lines, moves, req, matches, idx, inv_lines, applied,
                   skipped>>
    /\ UNCHANGED <<partners, attachments>>

\* GET /: no Depends(auth), no ledger call
Root(w) ==
    /\ pc[w] = "root"
    /\ resp' = [resp EXCEPT ![w] = Ok("Hello from Odoo Agent!")]
    /\ pc' = [pc EXCEPT ![w] = "done"]
    /\ UNCHANGED <<lines, moves, req, fetched, sugs, matches, idx, inv_lines,
                   applied, skipped, calls>>
    /\ UNCHANGED <<partners, attachments>>

\* GET /odoo/ping: answers from the configuration, no ledger call
Ping(w) ==
    /\ pc[w] = "ping"
    /\ resp' = [resp EXCEPT ![w] = Ok("ok")]
    /\ pc' = [pc EXCEPT ![w] = "done"]
    /\ UNCHANGED <<lines, moves, req, fetched, sugs, matches, idx, inv_lines,
                   applied, skipped, calls>>
    /\ UNCHANGED <<partners, attachments>>

\* GET /odoo/bank/unreconciled
BankUnreconciled(w) ==
    /\ pc[w] = "bank_unreconciled"
    /\ LET made == SubSeq(SuggestCalls(req[w].journal_name), 1,
                          Len(SuggestCalls(req[w].journal_name)) - 1)
           items == BankUnreconciledItems(lines, req[w].journal_name,
                        req[w].date_from, req[w].date_to, DefaultLimit)
       IN  \E failed \in 0..Len(made) :
              /\ calls' = [calls EXCEPT ![w] =
                     IF failed = 0 THEN made ELSE SubSeq(made, 1, failed)]
              /\ resp' = [resp EXCEPT ![w] =
                     IF failed = 0
                     THEN Ok([count |-> Len(items), items |-> items])
                     ELSE ServerError]
    /\ pc' = [pc EXCEPT ![w] = "done"]
    /\ UNCHANGED <<lines, moves, req, fetched, sugs, matches, idx, inv_lines,
                   applied, skipped>>
    /\ UNCHANGED <<partners, attachments>>

\* GET /odoo/invoices/unreconciled
InvoicesUnreconciled(w) ==
    /\ pc[w] = "invoices_unreconciled"
    /\ LET items == InvoicesUnreconciledItems(moves, req[w].date_from,
                                              req[w].date_to, DefaultLimit)
       IN  \E failed \in BOOLEAN :
              resp' = [resp EXCEPT ![w] =
                  IF failed THEN ServerError
                  ELSE Ok([count |-> Len(items), items |-> items])]
    /\ calls' = [calls EXCEPT ![w] =
           <<Call("account.move", "search_read", <<>>)>>]
    /\ pc' = [pc EXCEPT ![w] = "done"]
    /\ UNCHANGED <<lines, moves, req, fetched, sugs, matches, idx, inv_lines,
                   applied, skipped>>
    /\ UNCHANGED <<partners, attachments>>

\* The handlers of the partner and invoice-creation endpoints, as far as
\* their ledger traffic goes: each either rejects its input (422) before
\* any ledger call, or calls the ledger and answers, or fails on a call.
OtherEndpoints ==
    {"providers_search", "providers_ensure", "invoices_attach",
     "invoices_create_json", "invoices_create_with_file",
     "invoices_create_from_image", "invoices_validate"}

OtherHandler(w) ==
    /\ pc[w] \in OtherEndpoints
    /\ \E outcome \in {"ok", "invalid", "raise"} :
          /\ calls' = [calls EXCEPT ![w] =
                 IF outcome = "invalid" THEN <<>>
                 ELSE <<Call("*", "execute_kw", <<>>)>>]
          /\ resp' = [resp EXCEPT ![w] =
                 IF outcome = "ok" THEN Ok("ok")
                 ELSE IF outcome = "invalid" THEN HttpError(422, "invalid")
                 ELSE ServerError]
    /\ pc' = [pc EXCEPT ![w] = "done"]
    /\ UNCHANGED <<lines, moves, req, fetched, sugs, matches, idx, inv_lines,
                   applied, skipped>>
    /\ UNCHANGED <<partners, attachments>>

---------------------------------------------------------------------------
(* reconciliation_apply, one action per ledger call: the handler runs in   *)
(* the framework's thread pool and the ledger may change between its calls *)

LedgerErrorText == "ledger error"

Entry(bl_id, mv_id) == [bank_line_id |-> bl_id, move_id |-> mv_id]

\* m["bank_line_id"] or m["move_id"] raises KeyError
Malformed(m) == ~Present(m.bank_line_id) \/ ~Present(m.move_id)

Skip(m, reason) ==
    [bank_line_id |-> m.bank_line_id[1], move_id |-> m.move_id[1],
     reason |-> reason]

Done(m) == [bank_line_id |-> m.bank_line_id[1], move_id |-> m.move_id[1]]

\* the response of the request once reconciliation_apply has returned
ApplyResponse(w) ==
    IF req[w].endpoint = "task_auto_reconcile"
    THEN Ok([suggested |-> Len(sugs[w]), applied |-> Len(applied[w]),
             skipped |-> Len(skipped[w])])
    ELSE Ok([applied |-> applied[w], skipped |-> skipped[w]])

\* NoPayableLines with the check left out
NoPayableLinesIgnored(found) == FALSE

\* "if not inv_lines"
NoPayableLines(found) == found = <<>>

\* BankLineReconciled answering from the suggestion stage: a line that was
\* fetched as unreconciled is taken to be so still
BankLineReconciledCached(w, bl_id) ==
    IF \E k \in 1..Len(fetched[w].bank_items) :
           fetched[w].bank_items[k].id = bl_id
    THEN FALSE ELSE lines[bl_id].reconciled

\* the flag of the read at this point of the loop: bl.get("reconciled")
BankLineReconciled(w, bl_id) == lines[bl_id].reconciled

\* matches = payload.get("matches") or []
ApplyBegin(w) ==
    /\ pc[w] = "reconciliation_apply"
    /\ matches' = [matches EXCEPT ![w] =
           IF Present(req[w].matches) THEN req[w].matches[1] ELSE <<>>]
    /\ idx' = [idx EXCEPT ![w] = 1]
    /\ pc' = [pc EXCEPT ![w] = "apply_loop"]
    /\ UNCHANGED <<lines, moves, req, fetched, sugs, inv_lines, applied,
                   skipped, calls, resp>>
    /\ UNCHANGED <<partners, attachments>>

\* the loop is exhausted: return {"applied": applied, "skipped": skipped}
ApplyReturn(w) ==
    /\ pc[w] = "apply_loop"
    /\ idx[w] > Len(matches[w])
    /\ resp' = [resp EXCEPT ![w] = ApplyResponse(w)]
    /\ pc' = [pc EXCEPT ![w] = "done"]
    /\ UNCHANGED <<lines, moves, req, fetched, sugs, matches, idx, inv_lines,
                   applied, skipped, calls>>
    /\ UNCHANGED <<partners, attachments>>

\* the head of the loop body: the two int(...) and
\* get_invoice_payable_line_ids(mv_id)
ApplyLookup(w) ==
    /\ pc[w] = "apply_loop"
    /\ idx[w] <= Len(matches[w])
    /\ LET m == matches[w][idx[w]]
       IN  IF Malformed(m)
           THEN /\ resp' = [resp EXCEPT ![w] = ServerError]
                /\ pc' = [pc EXCEPT ![w] = "done"]
                /\ UNCHANGED <<idx, inv_lines, skipped, calls>>
           ELSE \E raised \in BOOLEAN :
                  LET found == PayableLineIds(lines, m.move_id[1])
                  IN  /\ calls' = [calls EXCEPT ![w] = Append(@,
                             Call("account.move.line", "search",
                                  <<m.move_id[1]>>))]
                      /\ IF raised
                         THEN /\ resp' = [resp EXCEPT ![w] = ServerError]
                              /\ pc' = [pc EXCEPT ![w] = "done"]
                              /\ UNCHANGED <<idx, inv_lines, skipped>>
                         ELSE /\ inv_lines' = [inv_lines EXCEPT ![w] = found]
                              /\ IF NoPayableLines(found)
                                 THEN /\ skipped' = [skipped EXCEPT ![w] =
                                             Append(@, Skip(m,
                                                 "No payable lines"))]
                                      /\ idx' = [idx EXCEPT ![w] = @ + 1]
                                      /\ UNCHANGED pc
                                 ELSE /\ pc' = [pc EXCEPT ![w] =
                                             "apply_read"]
                                      /\ UNCHANGED <<idx, skipped>>
                              /\ UNCHANGED resp
    /\ UNCHANGED <<lines, moves, req, fetched, sugs, matches, applied>>
    /\ UNCHANGED <<partners, attachments>>

\* ApplyRead under a lock per bank line: a line that another request has
\* read and is about to reconcile is treated as taken
ApplyReadSerialized(w) ==
    /\ pc[w] = "apply_read"
    /\ LET m == matches[w][idx[w]]
           bl_id == m.bank_line_id[1]
           taken == \E v \in Workers \ {w} :
                        /\ pc[v] = "apply_reconcile"
                        /\ matches[v][idx[v]].bank_line_id[1] = bl_id
       IN  \E raised \in BOOLEAN :
              /\ calls' = [calls EXCEPT ![w] = Append(@,
                     Call("account.move.line", "read", <<bl_id>>))]
              /\ IF raised \/ bl_id \notin 1..Len(lines)
                 THEN /\ resp' = [resp EXCEPT ![w] = ServerError]
                      /\ pc' = [pc EXCEPT ![w] = "done"]
                      /\ UNCHANGED <<idx, skipped>>
                 ELSE /\ IF BankLineReconciled(w, bl_id) \/ taken
                         THEN /\ skipped' = [skipped EXCEPT ![w] =
                                     Append(@, Skip(m, "Already reconciled"))]
                              /\ idx' = [idx EXCEPT ![w] = @ + 1]
                              /\ pc' = [pc EXCEPT ![w] = "apply_loop"]
                         ELSE /\ pc' = [pc EXCEPT ![w] = "apply_reconcile"]
                              /\ UNCHANGED <<idx, skipped>>
                      /\ UNCHANGED resp
    /\ UNCHANGED <<lines, moves, req, fetched, sugs, matches, inv_lines,
                   applied>>
    /\ UNCHANGED <<partners, attachments>>

\* read of the bank line's reconciled flag; reading an id the ledger does
\* not hold raises
ApplyRead(w) ==
    /\ pc[w] = "apply_read"
    /\ LET m == matches[w][idx[w]]
           bl_id == m.bank_line_id[1]
       IN  \E raised \in BOOLEAN :
              /\ calls' = [calls EXCEPT ![w] = Append(@,
                     Call("account.move.line", "read", <<bl_id>>))]
              /\ IF raised \/ bl_id \notin 1..Len(lines)
                 THEN /\ resp' = [resp EXCEPT ![w] = ServerError]
                      /\ pc' = [pc EXCEPT ![w] = "done"]
                      /\ UNCHANGED <<idx, skipped>>
                 ELSE /\ IF BankLineReconciled(w, bl_id)
                         THEN /\ skipped' = [skipped EXCEPT ![w] =
                                     Append(@, Skip(m, "Already reconciled"))]
                              /\ idx' = [idx EXCEPT ![w] = @ + 1]
                              /\ pc' = [pc EXCEPT ![w] = "apply_loop"]
                         ELSE /\ pc' = [pc EXCEPT ![w] = "apply_reconcile"]
                              /\ UNCHANGED <<idx, skipped>>
                      /\ UNCHANGED resp
    /\ UNCHANGED <<lines, moves, req, fetched, sugs, matches, inv_lines,
                   applied>>
    /\ UNCHANGED <<partners, attachments>>

\* ApplyReconcile recording the pair as applied before the call returns
ApplyReconcileOptimistic(w) ==
    /\ pc[w] = "apply_reconcile"
    /\ LET m == matches[w][idx[w]]
           line_ids == <<m.bank_line_id[1]>> \o inv_lines[w]
       IN  \E raised \in BOOLEAN :
              /\ calls' = [calls EXCEPT ![w] = Append(@,
                     Call("account.move.line", "reconcile", line_ids))]
              /\ applied' = [applied EXCEPT ![w] = Append(@, Done(m))]
              /\ IF raised
                 THEN /\ skipped' = [skipped EXCEPT ![w] =
                             Append(@, Skip(m, LedgerErrorText))]
                      /\ UNCHANGED lines
                 ELSE /\ lines' = ReconcileLines(lines, line_ids)
                      /\ UNCHANGED skipped
    /\ idx' = [idx EXCEPT ![w] = @ + 1]
    /\ pc' = [pc EXCEPT ![w] = "apply_loop"]
    /\ UNCHANGED <<moves, req, fetched, sugs, matches, inv_lines, resp>>
    /\ UNCHANGED <<partners, attachments>>

\* ApplyReconcile without its try/except: the error leaves the handler
ApplyReconcileUncaught(w) ==
    /\ pc[w] = "apply_reconcile"
    /\ LET m == matches[w][idx[w]]
           line_ids == <<m.bank_line_id[1]>> \o inv_lines[w]
       IN  \E raised \in BOOLEAN :
              /\ calls' = [calls EXCEPT ![w] = Append(@,
                     Call("account.move.line", "reconcile", line_ids))]
              /\ IF raised
                 THEN /\ resp' = [resp EXCEPT ![w] = ServerError]
                      /\ pc' = [pc EXCEPT ![w] = "done"]
                      /\ UNCHANGED <<lines, applied, idx>>
                 ELSE /\ lines' = ReconcileLines(lines, line_ids)
                      /\ applied' = [applied EXCEPT ![w] = Append(@, Done(m))]
                      /\ idx' = [idx EXCEPT ![w] = @ + 1]
                      /\ pc' = [pc EXCEPT ![w] = "apply_loop"]
                      /\ UNCHANGED resp
    /\ UNCHANGED <<moves, req, fetched, sugs, matches, inv_lines, skipped>>
    /\ UNCHANGED <<partners, attachments>>

\* the try block: reconcile over [bl_id] + inv_lines
ApplyReconcile(w) ==
    /\ pc[w] = "apply_reconcile"
    /\ LET m == matches[w][idx[w]]
           line_ids == <<m.bank_line_id[1]>> \o inv_lines[w]
       IN  \E raised \in BOOLEAN :
              /\ calls' = [calls EXCEPT ![w] = Append(@,
                     Call("account.move.line", "reconcile", line_ids))]
              /\ IF raised
                 THEN /\ skipped' = [skipped EXCEPT ![w] =
                             Append(@, Skip(m, LedgerErrorText))]
                      /\ UNCHANGED <<lines, applied>>
                 ELSE /\ lines' = ReconcileLines(lines, line_ids)
                      /\ applied' = [applied EXCEPT ![w] = Append(@, Done(m))]
                      /\ UNCHANGED skipped
    /\ idx' = [idx EXCEPT ![w] = @ + 1]
    /\ pc' = [pc EXCEPT ![w] = "apply_loop"]
    /\ UNCHANGED <<moves, req, fetched, sugs, matches, inv_lines, resp>>
    /\ UNCHANGED <<partners, attachments>>

\* HighMatches with the threshold exclusive
HighMatchesStrict(items, min_score) ==
    LET high == SelectSeq(items, LAMBDA m : m.score > min_score)
    IN  [k \in 1..Len(high) |->
            [bank_line_id |-> <<high[k].bank_line_id>>,
             move_id |-> <<high[k].move_id>>]]

\* high, flattened to the payload of the inner reconciliation_apply
HighMatches(items, min_score) ==
    LET high == SelectSeq(items, LAMBDA m : m.score >= min_score)
    IN  [k \in 1..Len(high) |->
            Entry(Some(high[k].bank_line_id), Some(high[k].move_id))]

\* POST /tasks/auto_reconcile, up to its call of reconciliation_apply:
\* reconciliation_suggest is called as a function, without filters
AutoReconcile(w) ==
    /\ pc[w] = "task_auto_reconcile"
    /\ \E failed \in 0..3 :
          /\ SuggestFrame(w, None, None, None, failed)
          /\ IF failed = 0
             THEN /\ matches' = [matches EXCEPT ![w] =
                         HighMatches(sugs'[w], req[w].min_score)]
                  /\ idx' = [idx EXCEPT ![w] = 1]
                  /\ pc' = [pc EXCEPT ![w] = "apply_loop"]
                  /\ UNCHANGED resp
             ELSE /\ resp' = [resp EXCEPT ![w] = ServerError]
                  /\ pc' = [pc EXCEPT ![w] = "done"]
                  /\ UNCHANGED <<matches, idx>>
    /\ UNCHANGED <<lines, moves, req, inv_lines, applied, skipped>>
    /\ UNCHANGED <<partners, attachments>>

\* Another user of the ledger reconciles line i: the ledger is shared and
\* changes between the bridge's calls.
ExternalReconcile(i) ==
    /\ i \in 1..Len(lines)
    /\ lines[i].reconciled = FALSE
    /\ lines' = [lines EXCEPT ![i].reconciled = TRUE]
    /\ UNCHANGED <<moves, pc, req, fetched, sugs, matches, idx, inv_lines,
                   applied, skipped, calls, resp>>
    /\ UNCHANGED <<partners, attachments>>

---------------------------------------------------------------------------
(* The matcher on its own: ledgers of at most MaxRows rows (bank lines     *)
(* plus invoices) that all pass the search domains, drawn from every       *)
(* combination of the amounts, dates and partner labels below.             *)

MaxRows == 3

Date(y, m, d) == Some([y |-> y, m |-> m, d |-> d])

Str_ACME_Co == <<"A", "C", "M", "E", " ", "C", "o">>
Str_Acme_SL == <<"A", "c", "m", "e", " ", "S", "L">>
Str_ACME == <<"A", "C", "M", "E">>
HdrValid == <<"B", "e", "a", "r", "e", "r", " ", "s", "k">>

MatchBankLines ==
    [journal_id : {1},
     date : {None, Date(2024, 2, 25), Date(2024, 3, 7)},
     balance : {60, -160},
     partner : {None, Some(Str_ACME_Co)},
     reconciled : {FALSE},
     move_id : {0},
     account_internal_type : {"liquidity"}]

MatchInvoices ==
    [move_type : {"in_invoice"},
     state : {"posted"},
     invoice_date : {None, Date(2024, 3, 1), Date(2024, 3, 2)},
     partner : {Some(<<>>), Some(Str_Acme_SL), Some(Str_ACME)},
     amount_residual : {110, 111},
     payment_state : {"not_paid"}]

MatchRequests ==
    {[NoReq EXCEPT !.endpoint = "reconciliation_suggest",
                   !.header = Some(HdrValid)]}

InitWorkers ==
    /\ pc = [w \in Workers |-> "idle"]
    /\ req = [w \in Workers |-> NoReq]
    /\ fetched = [w \in Workers |-> NoFetch]
    /\ sugs = [w \in Workers |-> <<>>]
    /\ matches = [w \in Workers |-> <<>>]
    /\ idx = [w \in Workers |-> 0]
    /\ inv_lines = [w \in Workers |-> <<>>]
    /\ applied = [w \in Workers |-> <<>>]
    /\ skipped = [w \in Workers |-> <<>>]
    /\ calls = [w \in Workers |-> <<>>]
    /\ resp = [w \in Workers |-> NoResp]

InitMatch ==
    /\ \E nb \in 1..MaxRows : \E ni \in 1..(MaxRows - nb) :
          /\ lines \in [1..nb -> MatchBankLines]
          /\ moves \in [1..ni -> MatchInvoices]
    /\ InitWorkers
    /\ partners = <<>>
    /\ attachments = <<>>

NextMatch ==
    \/ \E r \in MatchRequests : Arrive("w1", r)
    \/ ReconciliationSuggest("w1")
    \/ Release("w1")

SpecMatch == InitMatch /\ [][NextMatch]_vars

---------------------------------------------------------------------------
(* The bridge over a shared ledger: two bank lines (ids 1, 2), two vendor  *)
(* bills with two and one payable lines (ids 3, 4 and 5), a draft refund   *)
(* without payable lines and three moves that are no candidates; requests  *)
(* of every endpoint with every kind of credential; hand-written match     *)
(* lists of at most MaxMatches entries.  One request is served at a time.  *)

MaxMatches == 2

HdrLowerPadded ==
    <<"b", "e", "a", "r", "e", "r", " ", " ", "s", "k", " ">>
HdrWrongToken == <<"B", "e", "a", "r", "e", "r", " ", "s", "x">>
HdrWrongCase == <<"B", "e", "a", "r", "e", "r", " ", "S", "K">>
HdrNoToken == <<"B", "e", "a", "r", "e", "r", " ">>
HdrNoSpace == <<"B", "e", "a", "r", "e", "r">>
HdrBasic == <<"B", "a", "s", "i", "c", " ", "s", "k">>

GoodHeaders == {Some(HdrValid), Some(HdrLowerPadded)}

BadHeaders ==
    {None, Some(<<>>), Some(HdrWrongToken), Some(HdrWrongCase),
     Some(HdrNoToken), Some(HdrNoSpace), Some(HdrBasic)}

BankLine(date, balance, partner) ==
    [journal_id |-> 1, date |-> date, balance |-> balance,
     partner |-> partner, reconciled |-> FALSE, move_id |-> 0,
     account_internal_type |-> "liquidity"]

PayableLine(move_id) ==
    [journal_id |-> 2, date |-> None, balance |-> 0, partner |-> None,
     reconciled |-> FALSE, move_id |-> move_id,
     account_internal_type |-> "payable"]

Invoice(move_type, state, date, partner, residual, payment_state) ==
    [move_type |-> move_type, state |-> state, invoice_date |-> date,
     partner |-> partner, amount_residual |-> residual,
     payment_state |-> payment_state]

Filters ==
    {<<None, None, None>>,
     <<Some(<<"b", "A", "n">>), None, None>>,
     <<Some(<<"x">>), None, None>>,
     <<None, Date(2024, 3, 1), None>>,
     <<None, None, Date(2024, 3, 1)>>}

Entries ==
    {Entry(Some(1), Some(1)), Entry(Some(1), Some(2)),
     Entry(Some(2), Some(1)), Entry(Some(2), Some(3)),
     Entry(Some(1), None), Entry(Some(9), Some(1))}

RECURSIVE SeqsUpTo(_, _)
SeqsUpTo(S, n) ==
    IF n = 0 THEN {<<>>}
    ELSE LET shorter == SeqsUpTo(S, n - 1)
         IN  shorter \cup {Append(q, x) : q \in shorter, x \in S}

Requests ==
    LET base(e, h) == [NoReq EXCEPT !.endpoint = e, !.header = h]
    IN  {base(e, h) : e \in Endpoints, h \in BadHeaders}
        \cup {base(e, Some(HdrValid)) : e \in OtherEndpoints \cup {"root"}}
        \cup {base("ping", h) : h \in GoodHeaders}
        \cup {[base(e, h) EXCEPT !.journal_name = f[1], !.date_from = f[2],
                                 !.date_to = f[3]] :
                 e \in {"reconciliation_suggest", "bank_unreconciled",
                        "invoices_unreconciled"},
                 h \in {Some(HdrValid)}, f \in Filters}
        \cup {[base("reconciliation_apply", h) EXCEPT !.matches = p] :
                 h \in {Some(HdrValid)},
                 p \in {None} \cup {Some(q) : q \in SeqsUpTo(Entries, MaxMatches)}}
        \cup {[base("task_auto_reconcile", h) EXCEPT !.min_score = t] :
                 h \in {Some(HdrValid)}, t \in {BaseScore, DefaultMinScore,
                                                PartnerScore, 99}}

Init ==
    /\ lines = << BankLine(Date(2024, 3, 7), -160, Some(Str_ACME_Co)),
                  BankLine(Date(2024, 2, 25), 160, None),
                  PayableLine(1), PayableLine(1), PayableLine(2) >>
    /\ moves = << Invoice("in_invoice", "posted", None, Some(Str_ACME), 110,
                          "not_paid"),
                  Invoice("in_invoice", "posted", Date(2024, 3, 2),
                          Some(Str_Acme_SL), 111, "partial"),
                  Invoice("in_refund", "draft", None, Some(Str_Acme_SL), 110,
                          "not_paid"),
                  Invoice("in_invoice", "posted", None, Some(Str_Acme_SL), 0,
                          "paid"),
                  Invoice("in_invoice", "cancel", None, Some(Str_Acme_SL),
                          110, "not_paid"),
                  Invoice("out_invoice", "posted", None, Some(Str_Acme_SL),
                          110, "not_paid") >>
    /\ InitWorkers
    /\ partners = <<>>
    /\ attachments = <<>>

Serve(w) ==
    \/ \E r \in Requests : Arrive(w, r)
    \/ Release(w)
    \/ Root(w)
    \/ Ping(w)
    \/ OtherHandler(w)
    \/ BankUnreconciled(w)
    \/ InvoicesUnreconciled(w)
    \/ ReconciliationSuggest(w)
    \/ ApplyBegin(w)
    \/ ApplyLookup(w)
    \/ ApplyRead(w)
    \/ ApplyReconcile(w)
    \/ ApplyReturn(w)
    \/ AutoReconcile(w)

Next ==
    \/ Serve("w1")
    \/ \E i \in 1..Len(lines) : ExternalReconcile(i)

Spec == Init /\ [][Next]_vars

---------------------------------------------------------------------------
(* Properties of the matcher.  They are stated over what each worker       *)
(* fetched (fetched[w]) and the suggestions it computed from it (sugs[w]); *)
(* both are empty unless reconciliation_suggest has returned.              *)

\* the number of suggestions of s for the pair (bank line b, invoice m)
CountFor(s, b, m) ==
    Cardinality({k \in 1..Len(s) :
                    s[k].bank_line_id = b.id /\ s[k].move_id = m.id})

\* the pairs of fetched bank lines and invoices of worker w
FetchedPairs(w) ==
    {<<fetched[w].bank_items[i], fetched[w].inv_items[j]>> :
        i \in 1..Len(fetched[w].bank_items),
        j \in 1..Len(fetched[w].inv_items)}

\* the amounts of the ledger, in cents, differ by at most 0.50
CentsWithinTol(b, m) == Abs(b.amount - m.amount_residual) <= AmountTolCents

BothDates(b, m) == Present(b.date) /\ Present(m.invoice_date)

DaysApart(b, m) == Abs(ToOrdinal(b.date[1]) - ToOrdinal(m.invoice_date[1]))

\* C1: a bank line and an invoice whose amounts differ by more than 0.50
\* are never suggested together, whatever their dates and partner labels.
C1_NoSuggestionBeyondAmountTol ==
    \A w \in Workers : \A p \in FetchedPairs(w) :
        ~CentsWithinTol(p[1], p[2]) => CountFor(sugs[w], p[1], p[2]) = 0

\* reached: a pair 0.51 apart, with no date to compare and alike partner
\* labels, was evaluated and left out, in a result that is not empty
C1_Witness ==
    \E p \in FetchedPairs("w1") :
        /\ resp["w1"].status = 200
        /\ p[2].amount_residual - p[1].amount = 51
        /\ ~BothDates(p[1], p[2])
        /\ PartnerAlike(p[1], p[2])
        /\ CountFor(sugs["w1"], p[1], p[2]) = 0
        /\ sugs["w1"] # <<>>

\* C2: a pair within the amount tolerance whose two dates are present and
\* more than 5 days apart, in either direction, is never suggested.
C2_NoSuggestionBeyondDateTol ==
    \A w \in Workers : \A p \in FetchedPairs(w) :
        (/\ CentsWithinTol(p[1], p[2])
         /\ BothDates(p[1], p[2])
         /\ DaysApart(p[1], p[2]) > DateTolDays)
        => CountFor(sugs[w], p[1], p[2]) = 0

\* reached: a pair 0.49 apart in amount whose invoice is dated 6 days after
\* the bank line, across the end of February, was evaluated and left out
C2_Witness ==
    \E p \in FetchedPairs("w1") :
        /\ resp["w1"].status = 200
        /\ Abs(p[1].amount - p[2].amount_residual) = 49
        /\ BothDates(p[1], p[2])
        /\ ToOrdinal(p[2].invoice_date[1]) - ToOrdinal(p[1].date[1]) = 6
        /\ p[1].date[1].m # p[2].invoice_date[1].m
        /\ CountFor(sugs["w1"], p[1], p[2]) = 0

\* C3: a pair whose amounts differ by at most 0.50 (0.50 included) and
\* whose dates are not both present or are at most 5 days apart (5
\* included) gets exactly one suggestion, scored 0.98 if both partner
\* labels are non-empty and agree on their lowercased first 5 characters
\* and 0.90 otherwise.
C3_OneSuggestionWithinTol ==
    \A w \in Workers : \A p \in FetchedPairs(w) :
        (/\ CentsWithinTol(p[1], p[2])
         /\ BothDates(p[1], p[2]) => DaysApart(p[1], p[2]) <= DateTolDays)
        => /\ CountFor(sugs[w], p[1], p[2]) = 1
           /\ \A k \in 1..Len(sugs[w]) :
                 (/\ sugs[w][k].bank_line_id = p[1].id
                  /\ sugs[w][k].move_id = p[2].id)
                 => sugs[w][k].score =
                        IF /\ Truthy(p[1].partner)
                           /\ Truthy(p[2].partner)
                           /\ Lower(Prefix(p[1].partner[1], PrefixLen))
                                  = Lower(Prefix(p[2].partner[1], PrefixLen))
                        THEN PartnerScore ELSE BaseScore

\* the place of suggestion x in the nested iteration of worker w: bank
\* lines in fetched order, and for each the invoices in fetched order
PosOf(items, id) == CHOOSE k \in 1..Len(items) : items[k].id = id

EncounterRank(w, x) ==
    (PosOf(fetched[w].bank_items, x.bank_line_id) - 1)
        * Len(fetched[w].inv_items)
    + PosOf(fetched[w].inv_items, x.move_id)

\* C4: the suggestions are in descending order of score, and suggestions
\* of equal score are in the encounter order of the nested iteration.
C4_SortedByScoreThenEncounter ==
    \A w \in Workers : \A p, q \in 1..Len(sugs[w]) :
        p < q =>
            \/ sugs[w][p].score > sugs[w][q].score
            \/ /\ sugs[w][p].score = sugs[w][q].score
               /\ EncounterRank(w, sugs[w][p]) < EncounterRank(w, sugs[w][q])

\* reached: a response of at least four suggestions, of which two have the
\* same score and two were moved past each other by the sort
C4_Witness ==
    /\ req["w1"].endpoint = "reconciliation_suggest"
    /\ resp["w1"].status = 200
    /\ Len(sugs["w1"]) >= 4
    /\ \E p, q \in 1..Len(sugs["w1"]) :
          p < q /\ sugs["w1"][p].score = sugs["w1"][q].score
    /\ \E p, q \in 1..Len(sugs["w1"]) :
          /\ p < q
          /\ EncounterRank("w1", sugs["w1"][p])
                 > EncounterRank("w1", sugs["w1"][q])

---------------------------------------------------------------------------
(* Properties of the applier and of the threshold job *)

\* the pair worker w is processing
CurBank(w) == matches[w][idx[w]].bank_line_id[1]
CurMove(w) == matches[w][idx[w]].move_id[1]

\* invoice mv has an unreconciled payable line in the ledger
HasPayable(mv) ==
    \E i \in 1..Len(lines) :
        /\ lines[i].move_id = mv
        /\ ~lines[i].reconciled
        /\ lines[i].account_internal_type = "payable"

LastCall(w) == calls'[w][Len(calls'[w])]

\* C5: when the payable-line lookup of a pair answers and the invoice has
\* no unreconciled payable line, the pair is appended to skipped with the
\* reason "No payable lines", nothing is reconciled or applied, no read of
\* the bank line and no reconcile call is made, and the loop goes on to
\* the next pair.
C5_NoPayableLinesSkips ==
    [][\A w \in Workers :
          (/\ pc[w] = "apply_loop"
           /\ calls'[w] # calls[w]
           /\ pc'[w] # "done"
           /\ ~HasPayable(CurMove(w)))
          => /\ skipped'[w] = Append(skipped[w],
                    [bank_line_id |-> CurBank(w), move_id |-> CurMove(w),
                     reason |-> "No payable lines"])
             /\ applied'[w] = applied[w]
             /\ lines' = lines
             /\ Len(calls'[w]) = Len(calls[w]) + 1
             /\ LastCall(w).method = "search"
             /\ idx'[w] = idx[w] + 1
             /\ pc'[w] = "apply_loop"]_vars

\* reached: a batch of two pairs, both skipped for want of payable lines,
\* the first with its bank line reconciled and the second with its bank
\* line not reconciled, with no ledger call but the two lookups
C5_Witness ==
    /\ req["w1"].endpoint = "reconciliation_apply"
    /\ pc["w1"] = "done"
    /\ resp["w1"].status = 200
    /\ Len(skipped["w1"]) = 2
    /\ applied["w1"] = <<>>
    /\ \A k \in 1..2 : skipped["w1"][k].reason = "No payable lines"
    /\ \A k \in 1..2 : skipped["w1"][k].bank_line_id \in 1..Len(lines)
    /\ lines[skipped["w1"][1].bank_line_id].reconciled
    /\ ~lines[skipped["w1"][2].bank_line_id].reconciled
    /\ Len(calls["w1"]) = 2
    /\ \A k \in 1..2 : calls["w1"][k].method = "search"

\* C6: when the read of the bank line's flag answers (the invoice had
\* payable lines) and the ledger holds the line as reconciled at that
\* moment, the pair is appended to skipped with the reason "Already
\* reconciled", no reconcile call is made, and the loop goes on.
C6_AlreadyReconciledSkips ==
    [][\A w \in Workers :
          (/\ pc[w] = "apply_read"
           /\ calls'[w] # calls[w]
           /\ pc'[w] # "done"
           /\ lines[CurBank(w)].reconciled)
          => /\ skipped'[w] = Append(skipped[w],
                    [bank_line_id |-> CurBank(w), move_id |-> CurMove(w),
                     reason |-> "Already reconciled"])
             /\ applied'[w] = applied[w]
             /\ lines' = lines
             /\ Len(calls'[w]) = Len(calls[w]) + 1
             /\ LastCall(w).method = "read"
             /\ LastCall(w).args = <<CurBank(w)>>
             /\ idx'[w] = idx[w] + 1
             /\ pc'[w] = "apply_loop"]_vars

\* reached: an auto-reconcile run that fetched a bank line as unreconciled,
\* applied nothing on it, and skipped a pair on it as already reconciled:
\* the line was reconciled by someone else after the suggestions were made
C6_Witness ==
    /\ req["w1"].endpoint = "task_auto_reconcile"
    /\ pc["w1"] = "done"
    /\ resp["w1"].status = 200
    /\ \E k \in 1..Len(skipped["w1"]) :
          /\ skipped["w1"][k].reason = "Already reconciled"
          /\ \E j \in 1..Len(fetched["w1"].bank_items) :
                fetched["w1"].bank_items[j].id = skipped["w1"][k].bank_line_id
          /\ \A j \in 1..Len(applied["w1"]) :
                applied["w1"][j].bank_line_id # skipped["w1"][k].bank_line_id
          /\ \A j \in 1..Len(calls["w1"]) :
                calls["w1"][j].method = "reconcile"
                => calls["w1"][j].args[1] # skipped["w1"][k].bank_line_id

\* the number of suggestions among the first k whose score is at least
\* the threshold of the request
HighCount(w, k) ==
    Cardinality({j \in 1..k : sugs[w][j].score >= req[w].min_score})

PairOf(x) == [bank_line_id |-> <<x.bank_line_id>>, move_id |-> <<x.move_id>>]

\* C7: in task_auto_reconcile the list handed to the applier is the
\* suggestions with score >= min_score, in suggestion order; the default
\* threshold is 0.95, under which no 0.90-scored suggestion is handed
\* over; and the response has suggested = number of suggestions and
\* applied + skipped = number of suggestions with score >= min_score.
C7_AutoAppliesHighScores ==
    \A w \in Workers :
        req[w].endpoint = "task_auto_reconcile" =>
            /\ Len(matches[w]) = HighCount(w, Len(sugs[w]))
            /\ \A k \in 1..Len(sugs[w]) :
                  sugs[w][k].score >= req[w].min_score
                  => matches[w][HighCount(w, k)] = PairOf(sugs[w][k])
            /\ NoReq.min_score = 95
            /\ req[w].min_score = 95 =>
                  \A k \in 1..Len(sugs[w]) :
                      sugs[w][k].score = 90 =>
                          \A j \in 1..Len(matches[w]) :
                              matches[w][j] # PairOf(sugs[w][k])
            /\ (pc[w] = "done" /\ resp[w].status = 200) =>
                  /\ resp[w].body.suggested = Len(sugs[w])
                  /\ resp[w].body.applied + resp[w].body.skipped
                         = HighCount(w, Len(sugs[w]))

\* reached: a run with the default threshold over suggestions of both
\* scores that handed over only some of them, applied one and skipped one
C7_Witness ==
    /\ req["w1"].endpoint = "task_auto_reconcile"
    /\ req["w1"].min_score = 95
    /\ pc["w1"] = "done"
    /\ resp["w1"].status = 200
    /\ \E k \in 1..Len(sugs["w1"]) : sugs["w1"][k].score = 90
    /\ \E k \in 1..Len(sugs["w1"]) : sugs["w1"][k].score = 98
    /\ resp["w1"].body.applied >= 1
    /\ resp["w1"].body.skipped >= 1
    /\ resp["w1"].body.suggested > Len(matches["w1"])

---------------------------------------------------------------------------
(* Properties of the endpoints *)

\* the request of worker w carries no credential or a wrong one
BadCredential(w) ==
    req[w].endpoint \in Endpoints /\ req[w].header \notin GoodHeaders

C9_FailureNeverBlocksBatch ==
    \A w \in Workers :
        (/\ req[w].endpoint = "reconciliation_apply"
         /\ req[w].header \in GoodHeaders
         /\ Present(req[w].matches)
         /\ \A k \in 1..Len(req[w].matches[1]) :
               ~Malformed(req[w].matches[1][k])
         /\ pc[w] = "done")
        => /\ resp[w].status = 200
           /\ Len(applied[w]) + Len(skipped[w]) = Len(req[w].matches[1])

\* C10: the steps of reconciliation_suggest (as an endpoint and inside
\* task_auto_reconcile) and of the two listings it calls leave the ledger
\* as it is and make search and search_read calls only.
C10_SuggestReadsOnly ==
    [][\A w \in Workers :
          (/\ pc[w] \in {"reconciliation_suggest", "task_auto_reconcile",
                         "bank_unreconciled", "invoices_unreconciled"}
           /\ pc'[w] # pc[w])
          => /\ lines' = lines
             /\ moves' = moves
             /\ \A k \in (Len(calls[w]) + 1)..Len(calls'[w]) :
                   calls'[w][k].method \in {"search", "search_read"}]_vars

\* reached: a suggest response with suggestions, after its three reads,
\* with every bank line it proposes still unreconciled in the ledger
C10_Witness ==
    /\ req["w1"].endpoint = "reconciliation_suggest"
    /\ resp["w1"].status = 200
    /\ Len(calls["w1"]) = 3
    /\ sugs["w1"] # <<>>
    /\ \A k \in 1..Len(sugs["w1"]) :
          ~lines[sugs["w1"][k].bank_line_id].reconciled

---------------------------------------------------------------------------
(* Properties of the applier's report *)

\* the match list of the request of worker w is absent, empty or holds an
\* entry without bank_line_id or without move_id
InvalidMatchList(w) ==
    \/ ~Present(req[w].matches)
    \/ req[w].matches[1] = <<>>
    \/ \E k \in 1..Len(req[w].matches[1]) : Malformed(req[w].matches[1][k])

\* C11, as claimed: an apply request whose match list is absent, empty or
\* holds a malformed entry ends in an error, and no reconcile call is made
\* for any of its pairs.
C11_InvalidMatchListRejected ==
    \A w \in Workers :
        (/\ req[w].endpoint = "reconciliation_apply"
         /\ req[w].header \in GoodHeaders
         /\ InvalidMatchList(w)
         /\ pc[w] = "done")
        => /\ resp[w].status >= 400
           /\ \A k \in 1..Len(calls[w]) : calls[w][k].method # "reconcile"

\* the number of entries of list s that name the pair (b, m)
PairCount(s, b, m) ==
    Cardinality({k \in 1..Len(s) :
                    s[k].bank_line_id = b /\ s[k].move_id = m})

\* the pairs named by the match list of worker w
MatchPairs(w) ==
    {<<matches[w][k].bank_line_id[1], matches[w][k].move_id[1]>> :
        k \in 1..Len(matches[w])}

\* the request of worker w has returned from reconciliation_apply
ApplyReturned(w) ==
    /\ req[w].endpoint \in {"reconciliation_apply", "task_auto_reconcile"}
    /\ pc[w] = "done"
    /\ resp[w].status = 200

\* C12: when reconciliation_apply returns, every entry of matches is in
\* exactly one of applied and skipped (as many times as it is in matches),
\* so len(applied) + len(skipped) = len(matches); an applied pair had a
\* reconcile call over its bank line that succeeded; every skip reason is
\* "No payable lines", "Already reconciled" or the ledger's error text.
C12_EveryPairReportedOnce ==
    \A w \in Workers :
        ApplyReturned(w) =>
            /\ Len(applied[w]) + Len(skipped[w]) = Len(matches[w])
            /\ \A k \in 1..Len(matches[w]) : ~Malformed(matches[w][k])
            /\ \A pr \in MatchPairs(w) :
                  PairCount(applied[w], pr[1], pr[2])
                      + PairCount(skipped[w], pr[1], pr[2])
                  = Cardinality({k \in 1..Len(matches[w]) :
                        /\ matches[w][k].bank_line_id[1] = pr[1]
                        /\ matches[w][k].move_id[1] = pr[2]})
            /\ \A k \in 1..Len(applied[w]) :
                  /\ <<applied[w][k].bank_line_id, applied[w][k].move_id>>
                         \in MatchPairs(w)
                  /\ lines[applied[w][k].bank_line_id].reconciled
                  /\ \E j \in 1..Len(calls[w]) :
                        /\ calls[w][j].method = "reconcile"
                        /\ calls[w][j].args[1] = applied[w][k].bank_line_id
            /\ \A k \in 1..Len(skipped[w]) :
                  /\ <<skipped[w][k].bank_line_id, skipped[w][k].move_id>>
                         \in MatchPairs(w)
                  /\ skipped[w][k].reason \in
                         {"No payable lines", "Already reconciled",
                          LedgerErrorText}

\* reached: a returned batch that names the same pair twice, applied the
\* first and skipped the second
C12_Witness ==
    /\ req["w1"].endpoint = "reconciliation_apply"
    /\ pc["w1"] = "done"
    /\ resp["w1"].status = 200
    /\ Len(matches["w1"]) = 2
    /\ matches["w1"][1] = matches["w1"][2]
    /\ Len(applied["w1"]) = 1
    /\ Len(skipped["w1"]) = 1

\* C13: the reconcile call of a pair is made over the bank line id followed
\* by the invoice's unreconciled payable line ids, as the lookup of the
\* pair found them; when the call raises, the pair is appended to skipped
\* with the error text, applied and the ledger stay as they are, and the
\* loop goes on to the next pair.
C13_ReconcileErrorSkips ==
    [][\A w \in Workers :
          /\ (/\ pc[w] = "apply_loop"
              /\ pc'[w] = "apply_read")
             => /\ Len(inv_lines'[w]) =
                       Cardinality({i \in 1..Len(lines) :
                           /\ lines[i].move_id = CurMove(w)
                           /\ lines[i].account_internal_type = "payable"
                           /\ ~lines[i].reconciled})
                /\ \A k \in 1..Len(inv_lines'[w]) :
                      /\ lines[inv_lines'[w][k]].move_id = CurMove(w)
                      /\ lines[inv_lines'[w][k]].account_internal_type
                             = "payable"
                      /\ ~lines[inv_lines'[w][k]].reconciled
                      /\ \A j \in 1..(k - 1) :
                            inv_lines'[w][j] # inv_lines'[w][k]
          /\ (pc[w] = "apply_read" /\ pc'[w] = "apply_reconcile")
             => inv_lines'[w] = inv_lines[w]
          /\ (pc[w] = "apply_reconcile" /\ pc'[w] # pc[w])
             => /\ Len(calls'[w]) = Len(calls[w]) + 1
                /\ LastCall(w).method = "reconcile"
                /\ LastCall(w).args = <<CurBank(w)>> \o inv_lines[w]
                /\ idx'[w] = idx[w] + 1
                /\ pc'[w] = "apply_loop"
                /\ \/ /\ applied'[w] = Append(applied[w],
                             [bank_line_id |-> CurBank(w),
                              move_id |-> CurMove(w)])
                      /\ skipped'[w] = skipped[w]
                   \/ /\ skipped'[w] = Append(skipped[w],
                             [bank_line_id |-> CurBank(w),
                              move_id |-> CurMove(w),
                              reason |-> LedgerErrorText])
                      /\ applied'[w] = applied[w]
                      /\ lines' = lines]_vars

\* reached: a returned batch whose first pair was skipped with the error
\* of a reconcile call over three lines and whose second pair was applied
C13_Witness ==
    /\ req["w1"].endpoint = "reconciliation_apply"
    /\ pc["w1"] = "done"
    /\ resp["w1"].status = 200
    /\ Len(skipped["w1"]) = 1
    /\ skipped["w1"][1].reason = LedgerErrorText
    /\ Len(applied["w1"]) = 1
    /\ matches["w1"][1].bank_line_id[1] = skipped["w1"][1].bank_line_id
    /\ matches["w1"][1].move_id[1] = skipped["w1"][1].move_id
    /\ matches["w1"][2].move_id[1] = applied["w1"][1].move_id
    /\ \E j \in 1..Len(calls["w1"]) :
          /\ calls["w1"][j].method = "reconcile"
          /\ Len(calls["w1"][j].args) = 3

---------------------------------------------------------------------------
(* The candidates of the matcher: ledgers of one bank line and one or two  *)
(* vendor bills whose amounts, flags and payment states are drawn from the *)
(* values around the thresholds of the two search domains.                 *)

CandBankLines ==
    [journal_id : {1},
     date : {None},
     balance : {0, 40, -40},
     partner : {None},
     reconciled : {FALSE, TRUE},
     move_id : {0},
     account_internal_type : {"liquidity"}]

CandInvoices ==
    [move_type : {"in_invoice"},
     state : {"posted"},
     invoice_date : {None},
     partner : {Some(Str_ACME)},
     amount_residual : {0, 1, 30},
     payment_state : {"not_paid", "in_payment", "paid"}]

InitCandidates ==
    /\ lines \in [1..1 -> CandBankLines]
    /\ \E ni \in 1..2 : moves \in [1..ni -> CandInvoices]
    /\ InitWorkers
    /\ partners = <<>>
    /\ attachments = <<>>

SpecCandidates == InitCandidates /\ [][NextMatch]_vars

\* the amount reported by the listing for bank line id
FetchedBankAmount(w, id) ==
    fetched[w].bank_items[PosOf(fetched[w].bank_items, id)].amount

\* C14, as claimed: every suggestion pairs a bank line of amount > 0 with
\* an invoice of residual > 0, and reports an amount > 0.
C14_SuggestionsHavePositiveAmounts ==
    \A w \in Workers : \A k \in 1..Len(sugs[w]) :
        /\ FetchedBankAmount(w, sugs[w][k].bank_line_id) > 0
        /\ moves[sugs[w][k].move_id].amount_residual > 0
        /\ sugs[w][k].amount > 0

---------------------------------------------------------------------------
(* Two apply requests served at the same time by two workers of the thread *)
(* pool, over the ledger of Init; each names one pair on bank line 1.      *)

ConcRequests ==
    {[NoReq EXCEPT !.endpoint = "reconciliation_apply",
                   !.header = Some(HdrValid),
                   !.matches = Some(<<e>>)] :
        e \in {Entry(Some(1), Some(1)), Entry(Some(1), Some(2))}}

ServeApply(w) ==
    \/ \E r \in ConcRequests : Arrive(w, r)
    \/ ApplyBegin(w)
    \/ ApplyLookup(w)
    \/ ApplyRead(w)
    \/ ApplyReconcile(w)
    \/ ApplyReturn(w)
    \/ Release(w)

NextConc == \E w \in Workers : ServeApply(w)

SpecConc == Init /\ [][NextConc]_vars

\* C15: nothing in the bridge orders two apply requests.  A request whose
\* read finds the bank line not reconciled in the ledger goes on to the
\* reconcile call whatever the other request is doing, and then makes that
\* call over the bank line; the call either marks the lines it was given or
\* raises and leaves the ledger as it is, as the ledger decides.
C15_ApplyNotSerialized ==
    [][\A w \in Workers :
          /\ (/\ pc[w] = "apply_read"
              /\ pc'[w] \notin {"apply_read", "done"}
              /\ ~lines[CurBank(w)].reconciled)
             => /\ pc'[w] = "apply_reconcile"
                /\ skipped'[w] = skipped[w]
          /\ (pc[w] = "apply_reconcile" /\ pc'[w] # pc[w])
             => /\ LastCall(w).method = "reconcile"
                /\ LastCall(w).args[1] = CurBank(w)
                /\ \/ lines' = lines /\ applied'[w] = applied[w]
                   \/ /\ applied'[w] # applied[w]
                      /\ \A k \in 1..Len(LastCall(w).args) :
                            lines'[LastCall(w).args[k]].reconciled]_vars

\* reached: two requests naming the same pair have both returned with the
\* pair applied: both read bank line 1 as not reconciled before either
\* reconcile call, and both calls were made over the same lines
C15_Witness ==
    /\ \A w \in Workers :
          /\ req[w].endpoint = "reconciliation_apply"
          /\ pc[w] = "done"
          /\ resp[w].status = 200
          /\ applied[w] = <<[bank_line_id |-> 1, move_id |-> 1]>>
          /\ Len(calls[w]) = 3
          /\ calls[w][2] = Call("account.move.line", "read", <<1>>)
          /\ calls[w][3] = Call("account.move.line", "reconcile", <<1, 3, 4>>)

---------------------------------------------------------------------------
(* Properties of one batch served alone (Spec serves one request at a      *)
(* time; the ledger's other users only ever reconcile lines)               *)

\* the batch of worker w has applied a pair on the bank line, or on the
\* invoice, of the pair it is processing
AppliedBank(w) ==
    \E k \in 1..Len(applied[w]) : applied[w][k].bank_line_id = CurBank(w)

AppliedMove(w) ==
    \E k \in 1..Len(applied[w]) : applied[w][k].move_id = CurMove(w)

\* this step of worker w skips the pair it is processing, with reason r,
\* and goes on
SkipsWith(w, r) ==
    /\ skipped'[w] = Append(skipped[w],
           [bank_line_id |-> CurBank(w), move_id |-> CurMove(w),
            reason |-> r])
    /\ applied'[w] = applied[w]
    /\ lines' = lines
    /\ LastCall(w).method # "reconcile"
    /\ idx'[w] = idx[w] + 1
    /\ pc'[w] = "apply_loop"

\* this step of worker w ends its request in an error, the pair it is
\* processing neither applied nor skipped
Aborts(w) ==
    /\ pc'[w] = "done"
    /\ resp'[w].status = 500
    /\ skipped'[w] = skipped[w]
    /\ applied'[w] = applied[w]
    /\ lines' = lines
    /\ LastCall(w).method # "reconcile"

\* worker w makes the payable-line lookup of a well-formed pair
LookupStep(w) ==
    /\ pc[w] = "apply_loop"
    /\ calls'[w] # calls[w]

\* worker w makes the read of the bank line's flag
ReadStep(w) ==
    /\ pc[w] = "apply_read"
    /\ calls'[w] # calls[w]

\* C16, as claimed, of a batch served alone that is executed to its end
\* (no ledger read of it raises): a pair that shares its invoice with a
\* pair applied earlier is skipped with "No payable lines", a pair that
\* shares (only) its bank line with one is skipped with "Already
\* reconciled", and no reconcile call is made for either.
C16_SharedPairSkippedAsClaimed ==
    [][\A w \in Workers :
          /\ (LookupStep(w) /\ AppliedMove(w))
             => SkipsWith(w, "No payable lines") \/ Aborts(w)
          /\ (LookupStep(w) /\ AppliedBank(w) /\ ~AppliedMove(w))
             => pc'[w] = "apply_read" \/ Aborts(w)
          /\ (ReadStep(w) /\ AppliedBank(w))
             => SkipsWith(w, "Already reconciled") \/ Aborts(w)
          /\ pc[w] = "apply_reconcile"
             => ~AppliedBank(w) /\ ~AppliedMove(w)]_vars

\* C16, amended: in a batch served alone no bank line and no invoice is
\* applied twice, and no reconcile call is made for a pair that shares its
\* bank line or its invoice with a pair applied earlier.  Such a pair is
\* skipped with "No payable lines" when its lookup finds no unreconciled
\* payable line (always so for a shared invoice), else with "Already
\* reconciled"; or its lookup or its read raises and the request ends in
\* an error.
C16_NoDoubleApply ==
    [][\A w \in Workers :
          /\ (LookupStep(w) /\ AppliedMove(w))
             => SkipsWith(w, "No payable lines") \/ Aborts(w)
          /\ (LookupStep(w) /\ AppliedBank(w) /\ ~AppliedMove(w))
             => \/ /\ ~HasPayable(CurMove(w))
                   /\ SkipsWith(w, "No payable lines")
                \/ /\ HasPayable(CurMove(w))
                   /\ pc'[w] = "apply_read"
                   /\ applied'[w] = applied[w]
                   /\ lines' = lines
                \/ Aborts(w)
          /\ (ReadStep(w) /\ AppliedBank(w))
             => SkipsWith(w, "Already reconciled") \/ Aborts(w)
          /\ pc[w] = "apply_reconcile"
             => ~AppliedBank(w) /\ ~AppliedMove(w)
          /\ \A k, l \in 1..Len(applied'[w]) :
                k # l => /\ applied'[w][k].bank_line_id
                              # applied'[w][l].bank_line_id
                         /\ applied'[w][k].move_id # applied'[w][l].move_id]_vars

\* reached: a returned batch of two pairs on bank line 2, the first
\* applied, the second (on an invoice without payable lines) skipped with
\* "No payable lines" after one reconcile call in all
C16_Witness ==
    /\ req["w1"].endpoint = "reconciliation_apply"
    /\ pc["w1"] = "done"
    /\ resp["w1"].status = 200
    /\ applied["w1"] = <<[bank_line_id |-> 2, move_id |-> 1]>>
    /\ skipped["w1"] = <<[bank_line_id |-> 2, move_id |-> 3,
                          reason |-> "No payable lines"]>>
    /\ Cardinality({k \in 1..Len(calls["w1"]) :
                       calls["w1"][k].method = "reconcile"}) = 1

---------------------------------------------------------------------------
(* ensure_partner over the ledger table res.partner.  A row holds name (a  *)
(* str), vat, email and phone (None where the ledger answers False),       *)
(* supplier_rank, active and commercial_partner_id.  A search with limit 1 *)
(* answers the matching row of lowest id; any fixed order would do.        *)

\* get_company_partner_id(): the partner of the company of the API user
CompanyPartnerId == 1

\* str.upper() on one character
UpperChar(c) ==
    IF \E i \in 1..Len(LowerChars) : LowerChars[i] = c
    THEN UpperChars[CHOOSE i \in 1..Len(LowerChars) : LowerChars[i] = c]
    ELSE c

Upper(s) == [i \in 1..Len(s) |-> UpperChar(s[i])]

\* (x or "")
OrEmpty(o) == IF Truthy(o) THEN o[1] ELSE <<>>

\* (s or None)
OrNone(s) == IF s = <<>> THEN None ELSE Some(s)

\* domain_base
DomainBase(tbl, i) ==
    /\ tbl[i].supplier_rank > 0
    /\ tbl[i].active
    /\ i # CompanyPartnerId
    /\ tbl[i].commercial_partner_id # CompanyPartnerId

\* the answer of a search with limit 1 over the matching ids
FirstId(ids) ==
    IF ids = {} THEN None
    ELSE Some(CHOOSE i \in ids : \A k \in ids : i <= k)

\* 1) [("vat", "=", vat)] + domain_base
VatIds(tbl, vat) ==
    {i \in 1..Len(tbl) : DomainBase(tbl, i) /\ tbl[i].vat = Some(vat)}

\* 2) [("email", "ilike", email)] + domain_base
EmailIds(tbl, email) ==
    {i \in 1..Len(tbl) :
        /\ DomainBase(tbl, i)
        /\ Present(tbl[i].email)
        /\ ILike(tbl[i].email[1], email)}

\* 3) [("name", "=", name)] + domain_base
NameIds(tbl, name) ==
    {i \in 1..Len(tbl) : DomainBase(tbl, i) /\ tbl[i].name = name}

\* 4) [("name", "ilike", name)] + domain_base
NameLikeIds(tbl, name) ==
    {i \in 1..Len(tbl) : DomainBase(tbl, i) /\ ILike(tbl[i].name, name)}

\* "if v and not partner.get(field)": the value the field ends with
Fill(old, v) == IF Truthy(v) /\ ~Truthy(old) THEN v ELSE old

PartnerSearch(field) == Call("res.partner", "search", <<field>>)

\* the partner dict returned: id, name, vat, email, phone
PartnerDict(tbl, i) ==
    [id |-> i, name |-> tbl[i].name, vat |-> tbl[i].vat,
     email |-> tbl[i].email, phone |-> tbl[i].phone]

\* a lookup found row i: read it, write the fields that are missing in it
\* and given in the data (None for a field that this lookup never writes)
FoundPartner(tbl, i, vat, email, phone, made) ==
    LET row == [tbl[i] EXCEPT !.vat = Fill(@, vat),
                              !.email = Fill(@, email),
                              !.phone = Fill(@, phone)]
        tbl2 == [tbl EXCEPT ![i] = row]
    IN  [error |-> 0, partners |-> tbl2, partner |-> PartnerDict(tbl2, i),
         calls |-> made \o <<Call("res.partner", "read", <<i>>)>>
                   \o (IF row # tbl[i]
                       THEN <<Call("res.partner", "write", <<i>>)>>
                       ELSE <<>>)]

\* CreatedPartner without "supplier_rank": 1 in vals
CreatedPartnerNoRank(tbl, name, vat, email, phone, made) ==
    LET id == Len(tbl) + 1
        tbl2 == Append(tbl, [name |-> name, vat |-> vat, email |-> email,
                             phone |-> phone, supplier_rank |-> 0,
                             active |-> TRUE, commercial_partner_id |-> id])
    IN  [error |-> 0, partners |-> tbl2, partner |-> PartnerDict(tbl2, id),
         calls |-> made \o <<Call("res.partner", "create", <<id>>),
                             Call("res.partner", "read", <<id>>)>>]

\* 5) create and read back
CreatedPartner(tbl, name, vat, email, phone, made) ==
    LET id == Len(tbl) + 1
        tbl2 == Append(tbl, [name |-> name, vat |-> vat, email |-> email,
                             phone |-> phone, supplier_rank |-> 1,
                             active |-> TRUE, commercial_partner_id |-> id])
    IN  [error |-> 0, partners |-> tbl2, partner |-> PartnerDict(tbl2, id),
         calls |-> made \o <<Call("res.partner", "create", <<id>>),
                             Call("res.partner", "read", <<id>>)>>]

\* ensure_partner(data): the error it raises (0 if none), the table it
\* leaves, the dict it returns and the ledger calls it makes
EnsurePartner(tbl, data) ==
    LET name == Strip(IF Truthy(data.name) THEN data.name[1]
                      ELSE OrEmpty(data.display_name))
        vat == OrNone(Upper(Strip(OrEmpty(data.vat))))
        email == OrNone(Lower(Strip(OrEmpty(data.email))))
        phone == OrNone(Strip(OrEmpty(data.phone)))
        byVat == IF Present(vat) THEN FirstId(VatIds(tbl, vat[1])) ELSE None
        byEmail == IF Present(email) THEN FirstId(EmailIds(tbl, email[1]))
                   ELSE None
        byName == FirstId(NameIds(tbl, name))
        byLike == FirstId(NameLikeIds(tbl, name))
        c0 == <<Call("res.users", "read", <<>>),
                Call("res.company", "read", <<>>)>>
        c1 == c0 \o (IF Present(vat) THEN <<PartnerSearch("vat")>> ELSE <<>>)
        c2 == c1 \o (IF Present(email) THEN <<PartnerSearch("email")>>
                     ELSE <<>>)
        c3 == c2 \o <<PartnerSearch("name")>>
        c4 == c3 \o <<PartnerSearch("name ilike")>>
    IN  IF name = <<>>
        THEN [error |-> 422, partners |-> tbl, partner |-> <<>>,
              calls |-> <<>>]
        ELSE IF Present(byVat)
        THEN FoundPartner(tbl, byVat[1], None, email, phone, c1)
        ELSE IF Present(byEmail)
        THEN FoundPartner(tbl, byEmail[1], vat, None, phone, c2)
        ELSE IF Present(byName)
        THEN FoundPartner(tbl, byName[1], vat, email, phone, c3)
        ELSE IF Present(byLike)
        THEN FoundPartner(tbl, byLike[1], vat, email, phone, c4)
        ELSE CreatedPartner(tbl, name, vat, email, phone, c4)

\* POST /odoo/providers/ensure
ProvidersEnsure(w) ==
    /\ pc[w] = "providers_ensure"
    /\ LET r == EnsurePartner(partners, req[w].payload)
       IN  /\ partners' = r.partners
           /\ calls' = [calls EXCEPT ![w] = @ \o r.calls]
           /\ resp' = [resp EXCEPT ![w] =
                  IF r.error = 0
                  THEN Ok([status |-> "ok", partner |-> r.partner])
                  ELSE HttpError(r.error,
                           "El nombre del proveedor es obligatorio")]
    /\ pc' = [pc EXCEPT ![w] = "done"]
    /\ UNCHANGED <<lines, moves, req, fetched, sugs, matches, idx, inv_lines,
                   applied, skipped, attachments>>

---------------------------------------------------------------------------
(* Two ensure requests, served one after the other by the two workers,     *)
(* over partner tables of four rows that no lookup may answer (the         *)
(* company's own partner, a contact of it, an archived supplier and a      *)
(* customer) followed by MaxPartners suppliers of every combination of the *)
(* names, VAT numbers and e-mail addresses below.                          *)

MaxPartners == 2

Str_acme_padded == <<" ", "a", "c", "m", "e">>
Str_blank == <<" ">>
VatEs1 == <<"E", "S", "1">>
VatEs1Lower == <<"e", "s", "1">>
MailAb == <<"a", "@", "b">>
MailAbUpper == <<"A", "@", "b">>
Phone6 == <<"6">>

PartnerRow(rank, active, commercial) ==
    [name |-> Str_ACME, vat |-> Some(VatEs1), email |-> Some(MailAb),
     phone |-> None, supplier_rank |-> rank, active |-> active,
     commercial_partner_id |-> commercial]

ExcludedPartners ==
    << PartnerRow(1, TRUE, 1), PartnerRow(1, TRUE, 1),
       PartnerRow(1, FALSE, 3), PartnerRow(0, TRUE, 4) >>

SupplierRows ==
    [name : {Str_ACME, Str_Acme_SL},
     vat : {None, Some(VatEs1)},
     email : {None, Some(MailAb)},
     phone : {None},
     supplier_rank : {1},
     active : {TRUE},
     commercial_partner_id : {5}]

PartnerData ==
    [name : {Some(Str_ACME), Some(Str_acme_padded), Some(Str_blank)},
     display_name : {None},
     vat : {None, Some(VatEs1Lower)},
     email : {None, Some(MailAbUpper)},
     phone : {Some(Phone6)}]
    \cup {[name |-> None, display_name |-> Some(Str_Acme_SL), vat |-> None,
           email |-> None, phone |-> None]}

PartnerRequests ==
    {[endpoint |-> "providers_ensure", header |-> Some(HdrValid),
      payload |-> d] : d \in PartnerData}

InitPartner ==
    /\ lines = <<>>
    /\ moves = <<>>
    /\ InitWorkers
    /\ \E t \in [1..MaxPartners -> SupplierRows] :
          partners = ExcludedPartners \o t
    /\ attachments = <<>>

NextPartner ==
    \E w \in Workers :
        \/ \E r \in PartnerRequests : Arrive(w, r)
        \/ ProvidersEnsure(w)

SpecPartner == InitPartner /\ [][NextPartner]_vars


\* the name, VAT number and e-mail address that ensure_partner looks up
\* for data d (empty when d gives none)
GivenName(d) ==
    Strip(IF Truthy(d.name) THEN d.name[1] ELSE OrEmpty(d.display_name))
GivenVat(d) == Upper(Strip(OrEmpty(d.vat)))
GivenEmail(d) == Lower(Strip(OrEmpty(d.email)))

\* row i of the partner table is an active supplier outside the company
Eligible(i) ==
    /\ partners[i].supplier_rank > 0
    /\ partners[i].active
    /\ i # CompanyPartnerId
    /\ partners[i].commercial_partner_id # CompanyPartnerId

\* the first of the four lookups that row i answers for data d: 1 exact
\* VAT, 2 e-mail, 3 exact name, 4 name substring; 5 if it answers none
LookupRank(i, d) ==
    IF ~Eligible(i) THEN 5
    ELSE IF GivenVat(d) # <<>> /\ partners[i].vat = Some(GivenVat(d)) THEN 1
    ELSE IF /\ GivenEmail(d) # <<>>
            /\ Present(partners[i].email)
            /\ ILike(partners[i].email[1], GivenEmail(d)) THEN 2
    ELSE IF partners[i].name = GivenName(d) THEN 3
    ELSE IF ILike(partners[i].name, GivenName(d)) THEN 4
    ELSE 5

\* C19: a call of ensure_partner with a name answers the partner of the
\* first lookup that finds one, in the order exact VAT, e-mail, exact name,
\* name substring, and creates a partner only when no lookup finds one;
\* called again with the same data right after, it answers the same
\* partner id and creates nothing, so the two calls create at most one
\* partner.
C19_EnsurePartnerNoDuplicate ==
    [][\A w \in Workers :
          (/\ pc[w] = "providers_ensure"
           /\ pc'[w] = "done"
           /\ resp'[w].status = 200)
          => LET d == req[w].payload
                 id == resp'[w].body.partner.id
                 old == 1..Len(partners)
             IN  /\ GivenName(d) # <<>>
                 /\ IF \A i \in old : LookupRank(i, d) = 5
                    THEN /\ Len(partners') = Len(partners) + 1
                         /\ id = Len(partners')
                         /\ partners'[id].name = GivenName(d)
                    ELSE /\ Len(partners') = Len(partners)
                         /\ id \in old
                         /\ LookupRank(id, d) < 5
                         /\ \A i \in old : LookupRank(id, d) <= LookupRank(i, d)
                 /\ \A v \in Workers \ {w} :
                       (/\ pc[v] = "done"
                        /\ resp[v].status = 200
                        /\ req[v].payload = d)
                       => /\ id = resp[v].body.partner.id
                          /\ Len(partners') = Len(partners)]_vars

\* reached: two calls with the same data have returned the same id, the
\* first having created the partner and the second having found it
C19_Witness ==
    /\ \A w \in Workers : pc[w] = "done" /\ resp[w].status = 200
    /\ req["w1"].payload = req["w2"].payload
    /\ resp["w1"].body.partner.id = resp["w2"].body.partner.id
    /\ resp["w1"].body.partner.id = Len(partners)
    /\ Len(partners) = Len(ExcludedPartners) + MaxPartners + 1
    /\ Cardinality({w \in Workers :
           \E k \in 1..Len(calls[w]) : calls[w][k].method = "create"}) = 1

---------------------------------------------------------------------------
(* Vendor invoices: invoices_create_json and invoices_create_with_file.    *)
(* In this part the rows of moves carry the fields the two handlers read   *)
(* or write; a supplier reference and an invoice date are strings, an      *)
(* idempotency key is a string or the digest of bill_idempotency_key.      *)

Bill(move_type, state, partner_id, ref, origin) ==
    [move_type |-> move_type, state |-> state, partner_id |-> partner_id,
     ref |-> ref, invoice_origin |-> origin]

\* bool(x) of an optional int
IdTruthy(o) == Len(o) = 1 /\ o[1] # 0

\* d.get(key)
Get(d, key) == IF key \in DOMAIN d THEN Some(d[key]) ELSE None

RECURSIVE SumSeq(_)
SumSeq(s) == IF s = <<>> THEN 0 ELSE Head(s) + SumSeq(Tail(s))

\* bill_idempotency_key: the SHA-1 digest of "partner|ref|total|date",
\* kept as the four values it is computed from (equal digests are taken
\* to come from equal values)
bill_idempotency_key(partner_id, ref, total, inv_date) ==
    <<partner_id, ref, total, inv_date>>

\* ExistingActiveIds counting posted invoices only
ExistingActiveIdsPosted(mv, partner_id, ref) ==
    {i \in 1..Len(mv) :
        /\ mv[i].move_type = "in_invoice"
        /\ mv[i].partner_id = partner_id
        /\ mv[i].ref = ref
        /\ mv[i].state = "posted"}

\* search on account.move for an active invoice of the partner with ref
ExistingActiveIds(mv, partner_id, ref) ==
    {i \in 1..Len(mv) :
        /\ mv[i].move_type = "in_invoice"
        /\ mv[i].partner_id = partner_id
        /\ mv[i].ref = ref
        /\ mv[i].state # "cancel"}

\* search on account.move for an invoice whose invoice_origin is idem
IdemIds(mv, idem) ==
    {i \in 1..Len(mv) :
        mv[i].move_type = "in_invoice" /\ mv[i].invoice_origin = Some(idem)}

\* what a handler leaves: its response, the three tables and its calls
Outcome(response, mv, pt, at, made) ==
    [resp |-> response, moves |-> mv, partners |-> pt, attachments |-> at,
     calls |-> made]

\* _create_invoice_attachment: the status it raises (0 if none) and the
\* attachment table it leaves.  move_id is an optional id; None cannot be
\* marshalled by the XML-RPC client, which raises before any call is sent.
CreateInvoiceAttachment(at, move_id, data) ==
    IF data = "empty" THEN [error |-> 422, attachments |-> at]
    ELSE IF data = "big" THEN [error |-> 413, attachments |-> at]
    ELSE IF ~Present(move_id) THEN [error |-> 500, attachments |-> at]
    ELSE [error |-> 0,
          attachments |-> Append(at, [res_model |-> "account.move",
                                      res_id |-> move_id[1]])]

\* base64.b64decode(s, validate=True) does not raise: s is made of whole
\* groups of four characters of the alphabet (padding is not told apart)
B64Valid(s) ==
    /\ Len(s) % 4 = 0
    /\ \A i \in 1..Len(s) : s[i] \in {"A", "Q", "="}

\* invoices_create_json from the duplicate check on (lines 583-671), for
\* the partner resolved and the calls made so far
CreateJsonFor(mv, pt, at, payload, partner_id, made) ==
    LET ref == payload.ref
        bill_lines == payload.lines
        existing_active == FirstId(ExistingActiveIds(mv, partner_id, ref))
        c1 == Append(made, Call("account.move", "search", <<>>))
        idem == IF ~Truthy(payload.idempotency_key) /\ bill_lines # <<>>
                THEN Some(bill_idempotency_key(partner_id, ref,
                                               SumSeq(bill_lines),
                                               payload.invoice_date))
                ELSE payload.idempotency_key
        found_by_idem == IF Truthy(idem) THEN FirstId(IdemIds(mv, idem[1]))
                         ELSE None
        c2 == IF Truthy(idem)
              THEN Append(c1, Call("account.move", "search", <<>>))
              ELSE c1
        move_id == Len(mv) + 1
        mv1 == Append(mv, Bill("in_invoice", "draft", partner_id, ref, idem))
        c3 == Append(c2, Call("account.move", "create", <<>>))
        att == payload.attachment_b64
    IN  IF Present(existing_active)
        THEN Outcome(Ok([status |-> "duplicate",
                         reason |-> "existing_active_invoice",
                         existing_move_id |-> existing_active[1]]),
                     mv, pt, at, c1)
        ELSE IF Present(found_by_idem)
        THEN Outcome(Ok([status |-> "existing",
                         move_id |-> found_by_idem[1]]),
                     mv, pt, at, c2)
        ELSE IF ~Present(idem)
        THEN Outcome(ServerError, mv, pt, at, c2)
        ELSE IF ~Truthy(att)
        THEN Outcome(Ok([status |-> "created", move_id |-> move_id]),
                     mv1, pt, at, c3)
        ELSE IF ~B64Valid(Strip(att[1]))
        THEN Outcome(HttpError(422, "attachment_b64 invalido"),
                     mv1, pt, at, c3)
        ELSE Outcome(Ok([status |-> "created", move_id |-> move_id]),
                     mv1, pt,
                     CreateInvoiceAttachment(at, Some(move_id),
                                             "pdf").attachments,
                     c3 \o <<Call("ir.attachment", "create", <<>>),
                             Call("mail.message", "create", <<>>)>>)

\* invoices_create_json once ensure_partner has answered or raised
CreateJsonEnsured(mv, pt, at, payload, ensured) ==
    IF ensured.error # 0
    THEN Outcome(HttpError(ensured.error,
                           "El nombre del proveedor es obligatorio"),
                 mv, pt, at, ensured.calls)
    ELSE CreateJsonFor(mv, ensured.partners, at, payload,
                       ensured.partner.id, ensured.calls)

\* invoices_create_json(payload), every ledger call answering; an inline
\* attachment is plain base64, without a "base64," prefix
CreateJson(mv, pt, at, payload) ==
    IF IdTruthy(payload.partner_id)
    THEN CreateJsonFor(mv, pt, at, payload, payload.partner_id[1], <<>>)
    ELSE IF Present(payload.partner)
    THEN CreateJsonEnsured(mv, pt, at, payload,
                           EnsurePartner(pt, payload.partner[1]))
    ELSE Outcome(HttpError(422, "Debe indicar partner_id o datos de partner"),
                 mv, pt, at, <<>>)

\* action_post on invoice i: a draft is posted; an invoice in any other
\* state is left as it is, whether the ledger refuses the call or not
ActionPost(mv, i) ==
    IF mv[i].state = "draft" THEN [mv EXCEPT ![i].state = "posted"] ELSE mv

\* invoices_create_with_file once invoices_create_json has answered res
\* or raised (lines 712-723)
CreateWithFileRes(at, form, raised, made, res) ==
    LET c1 == made \o res.calls
        move_id == Get(res.resp.body, "move_id")
        attached == CreateInvoiceAttachment(at, move_id, form.file)
        c2 == c1 \o <<Call("ir.attachment", "create", <<>>),
                      Call("mail.message", "create", <<>>)>>
        c3 == Append(c2, Call("account.move", "action_post", <<>>))
    IN  IF res.resp.status # 200
        THEN Outcome(res.resp, res.moves, res.partners, at, c1)
        ELSE IF attached.error = 500
        THEN Outcome(ServerError, res.moves, res.partners, at, c1)
        ELSE IF attached.error # 0
        THEN Outcome(HttpError(attached.error, "adjunto"), res.moves,
                     res.partners, at, c1)
        ELSE IF ~form.auto_validate
        THEN Outcome(Ok([status |-> "created", move_id |-> move_id[1],
                         attachment_id |-> Len(attached.attachments),
                         validated |-> FALSE]),
                     res.moves, res.partners, attached.attachments, c2)
        ELSE IF res.moves[move_id[1]].state # "draft" /\ raised
        THEN Outcome(ServerError, res.moves, res.partners,
                     attached.attachments, c3)
        ELSE Outcome(Ok([status |-> "created", move_id |-> move_id[1],
                         attachment_id |-> Len(attached.attachments),
                         validated |-> TRUE]),
                     ActionPost(res.moves, move_id[1]),
                     res.partners, attached.attachments, c3)

\* the payload invoices_create_with_file builds, one placeholder line
FilePayload(form, partner_id) ==
    [partner_id |-> Some(partner_id), partner |-> None,
     invoice_date |-> form.invoice_date, ref |-> form.ref,
     lines |-> <<0>>, idempotency_key |-> None, attachment_b64 |-> None]

\* invoices_create_with_file once ensure_partner has answered or raised
CreateWithFileEnsured(mv, pt, at, form, raised, ensured) ==
    IF ensured.error # 0
    THEN Outcome(HttpError(ensured.error,
                           "El nombre del proveedor es obligatorio"),
                 mv, pt, at, ensured.calls)
    ELSE CreateWithFileRes(at, form, raised, ensured.calls,
             CreateJson(mv, ensured.partners, at,
                        FilePayload(form, ensured.partner.id)))

\* invoices_create_with_file(form), every ledger call answering but
\* action_post on an invoice that is not a draft, which may raise
CreateWithFile(mv, pt, at, form, raised) ==
    IF IdTruthy(form.partner_id)
    THEN CreateWithFileRes(at, form, raised, <<>>,
             CreateJson(mv, pt, at, FilePayload(form, form.partner_id[1])))
    ELSE IF \/ Truthy(form.partner_name)
            \/ Truthy(form.partner_vat)
            \/ Truthy(form.partner_email)
    THEN CreateWithFileEnsured(mv, pt, at, form, raised,
             EnsurePartner(pt, [name |-> Some(OrEmpty(form.partner_name)),
                                display_name |-> None,
                                vat |-> form.partner_vat,
                                email |-> form.partner_email,
                                phone |-> form.partner_phone]))
    ELSE Outcome(HttpError(422, "Falta partner_id o datos de partner"),
                 mv, pt, at, <<>>)

\* the handler has returned or raised: the worker holds its outcome
Answer(w, out) ==
    /\ moves' = out.moves
    /\ partners' = out.partners
    /\ attachments' = out.attachments
    /\ calls' = [calls EXCEPT ![w] = @ \o out.calls]
    /\ resp' = [resp EXCEPT ![w] = out.resp]
    /\ pc' = [pc EXCEPT ![w] = "done"]
    /\ UNCHANGED <<lines, req, fetched, sugs, matches, idx, inv_lines,
                   applied, skipped>>

\* POST /odoo/invoices/create
InvoicesCreateJson(w) ==
    /\ pc[w] = "invoices_create_json"
    /\ Answer(w, CreateJson(moves, partners, attachments, req[w].payload))

\* POST /odoo/invoices/create_with_file
InvoicesCreateWithFile(w) ==
    /\ pc[w] = "invoices_create_with_file"
    /\ \E raised \in BOOLEAN :
          Answer(w, CreateWithFile(moves, partners, attachments,
                                   req[w].payload, raised))

---------------------------------------------------------------------------
(* Create requests served one at a time by one worker, over a ledger with  *)
(* one supplier (partner 5) and three of its documents: an invoice F1 in   *)
(* any state, a cancelled invoice F2 that carries the idempotency key k,   *)
(* and a posted refund F2.  Requests arrive while the ledger holds at most *)
(* MaxBills documents and MaxAttachments attachments.                      *)

MaxBills == 4
MaxAttachments == 1

Str_k == <<"k">>
B64_A == <<"Q", "Q", "=", "=">>
B64_bad == <<"!">>

SupplierData ==
    [name |-> Some(Str_ACME), display_name |-> None, vat |-> None,
     email |-> None, phone |-> None]

CreatePayloads ==
    {[partner_id |-> p[1], partner |-> p[2], invoice_date |-> "2024-03-01",
      ref |-> r, lines |-> l, idempotency_key |-> k, attachment_b64 |-> a] :
        p \in {<<Some(5), None>>, <<None, None>>, <<None, Some(SupplierData)>>},
        r \in {"F1", "F2"},
        l \in {<<>>, <<1000>>},
        k \in {None, Some(Str_k)},
        a \in {None, Some(B64_A), Some(B64_bad)}}

FileForms ==
    {[partner_id |-> p[1], partner_name |-> p[2], partner_vat |-> None,
      partner_email |-> None, partner_phone |-> None,
      invoice_date |-> "2024-03-01", ref |-> r, auto_validate |-> v,
      file |-> f] :
        p \in {<<Some(5), None>>, <<None, None>>, <<None, Some(Str_ACME)>>},
        r \in {"F1", "F2"},
        v \in BOOLEAN,
        f \in {"pdf", "empty"}}

CreateRequests ==
    {[endpoint |-> "invoices_create_json", header |-> Some(HdrValid),
      payload |-> p] : p \in CreatePayloads}
    \cup {[endpoint |-> "invoices_create_with_file",
           header |-> Some(HdrValid), payload |-> f] : f \in FileForms}

InitCreate ==
    /\ lines = <<>>
    /\ \E s \in {"draft", "posted", "cancel"} :
          moves = << Bill("in_invoice", s, 5, "F1", None),
                     Bill("in_invoice", "cancel", 5, "F2", Some(Str_k)),
                     Bill("in_refund", "posted", 5, "F2", None) >>
    /\ InitWorkers
    /\ partners = ExcludedPartners
                  \o << [name |-> Str_Acme_SL, vat |-> None, email |-> None,
                         phone |-> None, supplier_rank |-> 1,
                         active |-> TRUE, commercial_partner_id |-> 5] >>
    /\ attachments = <<>>

NextCreate ==
    \/ /\ Len(moves) <= MaxBills
       /\ Len(attachments) <= MaxAttachments
       /\ \E r \in CreateRequests : Arrive("w1", r)
    \/ InvoicesCreateJson("w1")
    \/ InvoicesCreateWithFile("w1")
    \/ Release("w1")

SpecCreate == InitCreate /\ [][NextCreate]_vars

---------------------------------------------------------------------------
(* Properties of invoice creation *)

\* the active vendor invoices of partner p with supplier reference r
ActiveBills(mv, p, r) ==
    {i \in 1..Len(mv) :
        /\ mv[i].move_type = "in_invoice"
        /\ mv[i].state # "cancel"
        /\ mv[i].partner_id = p
        /\ mv[i].ref = r}

\* C17: with create requests served one at a time, no step gives a partner
\* and supplier reference a second active (non-cancelled) vendor invoice;
\* and a request to invoices_create_json that names, by partner_id and ref,
\* a pair for which an active vendor invoice exists is answered with status
\* "duplicate" and existing_move_id one such invoice, and leaves the
\* invoices and the attachments as they were.
C17_NoSecondActiveInvoice ==
    [][/\ \A i \in 1..Len(moves') :
             LET p == moves'[i].partner_id
                 r == moves'[i].ref
             IN  \/ Cardinality(ActiveBills(moves', p, r)) <= 1
                 \/ Cardinality(ActiveBills(moves', p, r))
                        <= Cardinality(ActiveBills(moves, p, r))
       /\ \A w \in Workers :
             (/\ pc[w] = "invoices_create_json"
              /\ pc'[w] = "done"
              /\ IdTruthy(req[w].payload.partner_id)
              /\ ActiveBills(moves, req[w].payload.partner_id[1],
                             req[w].payload.ref) # {})
             => /\ resp'[w].status = 200
                /\ resp'[w].body.status = "duplicate"
                /\ resp'[w].body.existing_move_id
                       \in ActiveBills(moves, req[w].payload.partner_id[1],
                                       req[w].payload.ref)
                /\ moves' = moves
                /\ attachments' = attachments]_vars

\* reached: a request has created an invoice with an attachment, and a
\* later request with the same partner and reference is answered
\* "duplicate" with the id of that invoice
C17_Witness ==
    /\ pc["w1"] = "done"
    /\ req["w1"].endpoint = "invoices_create_json"
    /\ resp["w1"].status = 200
    /\ resp["w1"].body.status = "duplicate"
    /\ resp["w1"].body.existing_move_id = 4
    /\ Len(moves) = 4
    /\ moves[4].ref = req["w1"].payload.ref
    /\ Len(attachments) = 1

\* C18: a request to invoices_create_with_file that names its partner by
\* id and uploads an acceptable file has the file attached to an invoice of
\* the ledger, whatever invoices_create_json answered (created, existing or
\* duplicate); an answer of 200 carries that invoice's id as move_id; and
\* no other invoice changes, that one only when auto_validate is set.
C18_FileAttachedToReturnedInvoice ==
    [][\A w \in Workers :
          (/\ pc[w] = "invoices_create_with_file"
           /\ pc'[w] = "done"
           /\ IdTruthy(req[w].payload.partner_id)
           /\ req[w].payload.file = "pdf")
          => /\ Len(attachments') = Len(attachments) + 1
             /\ LET id == attachments'[Len(attachments')].res_id
                IN  /\ id \in 1..Len(moves')
                    /\ resp'[w].status = 200 => resp'[w].body.move_id = id
                    /\ \A i \in 1..Len(moves) :
                          moves'[i] # moves[i]
                          => i = id /\ req[w].payload.auto_validate]_vars

===========================================================================
